---------------------------- MODULE Spec2Model ----------------------------
(***************************************************************************)
(* A model of the rsjvm class-file reader: the byte cursor (ByteReader),   *)
(* the constant pool (ConstantPool), the version decoder                   *)
(* (MajorVersion / ClassFileVersion) and the orchestrator                  *)
(* (ClassFileReader::read_class).                                          *)
(*                                                                         *)
(* Values wider than 31 bits are kept as big-endian sequences of 16-bit    *)
(* words (u32 = <<hi, lo>>, i64 / f64 bits = <<w3, w2, w1, w0>>), so that  *)
(* the byte order of every read stays observable.                          *)
(***************************************************************************)
EXTENDS Integers, Sequences, FiniteSets, TLC

VARIABLES
    byte_reader,      \* ByteReader { buf, pos } plus the history `log` of its reads
    reader_advances,  \* which ByteReader revision the run uses (see Advance)
    constants,        \* ConstantPool.constants of the pool under test
    class_file,       \* ClassFileReader.class_file, the ClassFile under construction
    pc,               \* position of ClassFileReader::read in its section list
    ran,              \* history: the sections read() has entered, in order
    result,           \* what read_class returned
    out,              \* the last call made on the unit under test and its result
    calls,            \* number of calls made so far (bounded)
    frame,            \* the interpreter's Frame { locals, stack, pc }
    overflow_checks   \* whether the build checks integer overflow (debug profile)

vars == <<byte_reader, reader_advances, constants, class_file, pc, ran, result, out, calls,
          frame, overflow_checks>>

---------------------------------------------------------------------------
(* Bounds of the model.                                                    *)

MaxBuf == 9         \* longest buffer handed to a ByteReader under test
MaxReads == 3       \* reads made on one ByteReader under test
MaxLen == 2         \* largest length passed to read_bytes / read_utf8 under test

---------------------------------------------------------------------------
(* Results.                                                                *)

Ok(v) == [ok |-> TRUE, val |-> v, err |-> <<>>]
Err(e) == [ok |-> FALSE, val |-> <<>>, err |-> e]

None == <<"None">>
Some(v) == <<"Some", v>>

Min(a, b) == IF a < b THEN a ELSE b
Max(a, b) == IF a > b THEN a ELSE b

---------------------------------------------------------------------------
(* byte_reader.rs                                                          *)

UnexpectedEOF == <<"UnexpectedEOF">>
Cesu8DecodingError == <<"Cesu8DecodingError">>

\* ByteReader::new
ByteReader_new(data) == [buf |-> data, pos |-> 0, log |-> <<>>]

\* The offset after a read of `size` bytes at `pos`.  read_bytes in
\* byte_reader.rs never assigns self.pos: a reader of that revision stays
\* where it is.  class_file_reader.rs is written against a later revision of
\* ByteReader (it calls read_pair_u16 and snippet, which byte_reader.rs does
\* not have); that revision is described by the cursor contract only, which
\* makes every read advance the offset by the bytes it read.
AdvanceInSrc(pos, size) == pos
AdvanceBySpec(pos, size) == pos + size
Advance(pos, size) == IF reader_advances THEN AdvanceBySpec(pos, size)
                                         ELSE AdvanceInSrc(pos, size)

\* ByteReader::read_bytes.  The reader comes back with the read appended to
\* its history (offset, size): the history is not a field of the struct.
read_bytes(r, size) ==
    IF r.pos + size > Len(r.buf)
    THEN [ok |-> FALSE, val |-> <<>>, err |-> UnexpectedEOF, r |-> r]
    ELSE [ok |-> TRUE, val |-> SubSeq(r.buf, r.pos + 1, r.pos + size), err |-> <<>>,
          r |-> [r EXCEPT !.pos = Advance(r.pos, size),
                          !.log = Append(r.log, <<r.pos, size>>)]]

\* uN::from_be_bytes / iN::from_be_bytes / fN::from_be_bytes
u8_from_be_bytes(b) == b[1]
u16_from_be_bytes(b) == b[1] * 256 + b[2]
\* The same four bytes taken least significant byte first.
u32_from_le_bytes(b) == <<b[4] * 256 + b[3], b[2] * 256 + b[1]>>
u32_from_be_bytes(b) == <<b[1] * 256 + b[2], b[3] * 256 + b[4]>>
i32_from_be_bytes(b) ==
    (IF b[1] >= 128 THEN b[1] - 256 ELSE b[1]) * 16777216
        + b[2] * 65536 + b[3] * 256 + b[4]
i64_from_be_bytes(b) ==
    <<b[1] * 256 + b[2], b[3] * 256 + b[4], b[5] * 256 + b[6], b[7] * 256 + b[8]>>
f32_from_be_bytes(b) == <<"f32", b[1] * 256 + b[2], b[3] * 256 + b[4]>>
f64_from_be_bytes(b) ==
    <<"f64", b[1] * 256 + b[2], b[3] * 256 + b[4], b[5] * 256 + b[6], b[7] * 256 + b[8]>>

\* cesu8::from_java_cesu8 on the bytes the model feeds it: one-byte
\* sequences (below 0x80) decode to themselves, two-byte sequences
\* 110xxxxx 10xxxxxx to their code point (0xC0 0x80 is Java's NUL), and a
\* byte that starts no sequence (a lone continuation byte, 0xF8..0xFF) is
\* a decoding error.  The result is the sequence of code points.
RECURSIVE from_java_cesu8(_)
from_java_cesu8(b) ==
    IF Len(b) = 0 THEN Ok(<<>>)
    ELSE IF b[1] < 128
    THEN LET rest == from_java_cesu8(Tail(b))
         IN IF rest.ok THEN Ok(<<b[1]>> \o rest.val) ELSE rest
    ELSE IF b[1] >= 192 /\ b[1] < 224 /\ Len(b) >= 2 /\ b[2] >= 128 /\ b[2] < 192
    THEN LET rest == from_java_cesu8(SubSeq(b, 3, Len(b)))
         IN IF rest.ok THEN Ok(<<(b[1] - 192) * 64 + (b[2] - 128)>> \o rest.val)
                       ELSE rest
    ELSE Err(Cesu8DecodingError)

\* One fixed-width read: read_bytes(size_of::<T>()) then T::from_be_bytes.
ReadFixed(r, size, conv(_)) ==
    LET s == read_bytes(r, size)
    IN IF s.ok THEN [s EXCEPT !.val = conv(s.val)] ELSE s

read_u8(r) == ReadFixed(r, 1, u8_from_be_bytes)
read_u16(r) == ReadFixed(r, 2, u16_from_be_bytes)
read_u32(r) == ReadFixed(r, 4, u32_from_be_bytes)
read_i32(r) == ReadFixed(r, 4, i32_from_be_bytes)
read_i64(r) == ReadFixed(r, 8, i64_from_be_bytes)
read_f32(r) == ReadFixed(r, 4, f32_from_be_bytes)
read_f64(r) == ReadFixed(r, 8, f64_from_be_bytes)

\* ByteReader::read_utf8
read_utf8(r, len) ==
    LET s == read_bytes(r, len)
    IN IF ~s.ok THEN s
       ELSE LET d == from_java_cesu8(s.val)
            IN IF d.ok THEN [s EXCEPT !.val = d.val]
               ELSE [ok |-> FALSE, val |-> <<>>, err |-> d.err, r |-> s.r]

---------------------------------------------------------------------------
(* The ByteReader on its own: a reader is built over a buffer and read     *)
(* from, one call after the other (byte_reader.rs, as it is in the tree).  *)

\* The bytes of byte_reader.rs's tests (the magic number, 1337228, +inf),
\* and a short ASCII text.
ReaderData == <<202, 254, 186, 190, 0, 20, 103, 140, 127, 128, 0, 0>>
ReaderText == <<65, 66, 0, 7>>

Prefixes(d, n) == {SubSeq(d, 1, k) : k \in 0..Min(n, Len(d))}
ReaderBufs == Prefixes(ReaderData, MaxBuf) \cup Prefixes(ReaderText, MaxBuf)

\* ClassFile::default()
ClassFile_default ==
    [version |-> None, constant_pool |-> <<>>, flags |-> <<>>, this_class |-> <<>>,
     super_class |-> None, interfaces |-> <<>>, fields |-> <<>>, methods |-> <<>>,
     attributes |-> <<>>]

NoCall == [op |-> "none", size |-> 0, at |-> 0, unread |-> 0, ok |-> TRUE,
           val |-> <<>>, err |-> <<>>]

\* OperandStack::new and Frame::new: empty locals, an empty operand stack
\* that remembers max_stack as its capacity, pc 0.
OperandStack_new(capacity) == [elements |-> <<>>, capacity |-> capacity]
Frame_new(max_locals, max_stack) ==
    [locals |-> <<>>, stack |-> OperandStack_new(max_stack), pc |-> 0]

InitReader ==
    /\ byte_reader \in {ByteReader_new(d) : d \in ReaderBufs}
    /\ reader_advances = FALSE
    /\ frame = Frame_new(0, 0)
    /\ overflow_checks = FALSE
    /\ constants = <<>>
    /\ class_file = ClassFile_default
    /\ pc = "reader"
    /\ ran = <<>>
    /\ result = None
    /\ out = NoCall
    /\ calls = 0

\* Bytes handed out by the reads of a history: the sum of their sizes.
RECURSIVE SumSizes(_)
SumSizes(log) == IF Len(log) = 0 THEN 0 ELSE log[1][2] + SumSizes(Tail(log))

\* One call of a read method on the reader under test.  `unread` is the
\* number of bytes of the buffer that no earlier read has handed out.
ReaderCall(name, size, s) ==
    /\ pc = "reader"
    /\ calls < MaxReads
    /\ byte_reader' = s.r
    /\ out' = [op |-> name, size |-> size, at |-> byte_reader.pos,
               unread |-> Len(byte_reader.buf) - SumSizes(byte_reader.log),
               ok |-> s.ok, val |-> s.val, err |-> s.err]
    /\ calls' = calls + 1
    /\ UNCHANGED <<frame, overflow_checks,
                   reader_advances, constants, class_file, pc, ran, result>>

Call_read_u8 == ReaderCall("read_u8", 1, read_u8(byte_reader))
Call_read_u16 == ReaderCall("read_u16", 2, read_u16(byte_reader))
Call_read_u32 == ReaderCall("read_u32", 4, read_u32(byte_reader))
Call_read_i32 == ReaderCall("read_i32", 4, read_i32(byte_reader))
Call_read_i64 == ReaderCall("read_i64", 8, read_i64(byte_reader))
Call_read_f32 == ReaderCall("read_f32", 4, read_f32(byte_reader))
Call_read_f64 == ReaderCall("read_f64", 8, read_f64(byte_reader))
Call_read_bytes == \E n \in 0..MaxLen :
    ReaderCall("read_bytes", n, read_bytes(byte_reader, n))
Call_read_utf8 == \E n \in 0..MaxLen :
    ReaderCall("read_utf8", n, read_utf8(byte_reader, n))

NextReader ==
    \/ Call_read_u8
    \/ Call_read_u16
    \/ Call_read_u32
    \/ Call_read_i32
    \/ Call_read_i64
    \/ Call_read_f32
    \/ Call_read_f64
    \/ Call_read_bytes
    \/ Call_read_utf8

SpecReader == InitReader /\ [][NextReader]_vars

\* C3: each successful read advances the offset by the number of bytes it
\* read (1, 2, 4, 4, 8, 4, 8, n, n): the offset is the sum of the sizes of
\* the successful reads, and each read starts where the one before it ended.
C3_ReadsAdvanceByWidth ==
    /\ byte_reader.pos = SumSizes(byte_reader.log)
    /\ \A i \in 1..Len(byte_reader.log) :
          byte_reader.log[i][1] = SumSizes(SubSeq(byte_reader.log, 1, i - 1))

\* C4: a read that needs w bytes when fewer than w unread bytes remain fails
\* with UnexpectedEOF, and no two successful reads return the same byte of
\* the input.
C4_EOFWhenExhausted ==
    /\ (out.op # "none" /\ out.unread < out.size)
          => (~out.ok /\ out.err = UnexpectedEOF)
    /\ \A i, j \in 1..Len(byte_reader.log) :
          i < j => \/ byte_reader.log[i][1] + byte_reader.log[i][2] <= byte_reader.log[j][1]
                   \/ byte_reader.log[j][2] = 0 \/ byte_reader.log[i][2] = 0

---------------------------------------------------------------------------
(* constant_pool.rs                                                        *)

\* Constant: a tuple <<variant name, operands...>>.
Unsuable == <<"Unsuable">>
IsWide(c) == c[1] \in {"Long", "Double"}

IndexOutOfBounds(i) == <<"IndexOutOfBounds", i>>
UnsuableConstant(i) == <<"UnsuableConstant", i>>

\* An add that appends the constant and nothing after it.
add_without_sentinel(cs, constant) == Append(cs, constant)

\* ConstantPool::add
add(cs, constant) ==
    IF IsWide(constant) THEN Append(Append(cs, constant), Unsuable)
                        ELSE Append(cs, constant)

\* Vec::get(index): the element at the 0-based position, if there is one.
Vec_get(v, index) == IF index >= 0 /\ index < Len(v) THEN Some(v[index + 1]) ELSE None

\* ConstantPool::get
get(cs, index) ==
    LET e == Vec_get(cs, index)
    IN IF e = None THEN Err(IndexOutOfBounds(index))
       ELSE IF e[2] = Unsuable THEN Err(UnsuableConstant(index))
       ELSE Ok(e[2])

\* Constant::name
Constant_name(c) == c[1]

---------------------------------------------------------------------------
(* The ConstantPool on its own: any sequence of add calls, and get calls   *)
(* on what they built.                                                     *)

MaxAdds == 3        \* add calls made on one pool under test

PoolConstants ==
    {<<"Long", <<0, 0, 0, 5>>>>, <<"Integer", 7>>, <<"Double", <<"f64", 0, 0, 0, 0>>>>,
     <<"Utf8", <<65>>>>, <<"ClassIndex", 1>>}

InitPool ==
    /\ byte_reader = ByteReader_new(<<>>)
    /\ reader_advances = FALSE
    /\ frame = Frame_new(0, 0)
    /\ overflow_checks = FALSE
    /\ constants = <<>>
    /\ class_file = ClassFile_default
    /\ pc = "pool"
    /\ ran = <<>>
    /\ result = None
    /\ out = NoCall
    /\ calls = 0

Call_add == \E c \in PoolConstants :
    /\ pc = "pool"
    /\ calls < MaxAdds
    /\ constants' = add(constants, c)
    /\ calls' = calls + 1
    /\ out' = [NoCall EXCEPT !.op = "add", !.val = c]
    /\ UNCHANGED <<frame, overflow_checks,
                   byte_reader, reader_advances, class_file, pc, ran, result>>

Call_get == \E k \in 0..(Len(constants) + 1) :
    /\ pc = "pool"
    /\ LET g == get(constants, k)
       IN out' = [NoCall EXCEPT !.op = "get", !.at = k, !.ok = g.ok,
                                !.val = g.val, !.err = g.err]
    /\ UNCHANGED <<frame, overflow_checks,
                   byte_reader, reader_advances, constants, class_file, pc, ran,
                   result, calls>>

NextPool == Call_add \/ Call_get

SpecPool == InitPool /\ [][NextPool]_vars

\* The slot at a 1-based pool index, the first constant added being index 1.
Slot(cs, k) == cs[k]

\* C5: get(k) for 1 <= k <= n returns the k-th slot in insertion order (the
\* first constant added is index 1) unless that slot is an Unusable
\* sentinel, which gives UnusableConstant(k); get(0) and get(k) for k > n
\* fail with IndexOutOfBounds.
C5_GetIsOneBased ==
    out.op = "get" =>
        LET k == out.at
            n == Len(constants)
        IN IF k = 0 \/ k > n THEN ~out.ok /\ out.err = IndexOutOfBounds(k)
           ELSE IF Slot(constants, k) = Unsuable
                THEN ~out.ok /\ out.err = UnsuableConstant(k)
                ELSE out.ok /\ out.val = Slot(constants, k)

\* C6: each Long or Double entry at index i (get(i) returns it) is followed
\* at index i+1 by an Unusable sentinel, get(i+1) fails with
\* UnusableConstant(i+1), and there is no Unusable sentinel anywhere else in
\* the pool: a sentinel is never first and always follows a Long or Double.
C6_WideEntriesOwnTwoSlots ==
    /\ \A i \in 0..Len(constants) :
          (get(constants, i).ok /\ IsWide(get(constants, i).val)) =>
              /\ ~get(constants, i + 1).ok
              /\ get(constants, i + 1).err = UnsuableConstant(i + 1)
    /\ \A j \in 0..Len(constants) :
          get(constants, j).err = UnsuableConstant(j) =>
              /\ j >= 1
              /\ get(constants, j - 1).ok
              /\ IsWide(get(constants, j - 1).val)
    /\ \A p \in 1..Len(constants) :
          constants[p] = Unsuable <=> (p > 1 /\ IsWide(constants[p - 1]))

\* A get that hit the sentinel of a Long or Double with entries after it.
C6_Witness ==
    /\ out.op = "get"
    /\ ~out.ok
    /\ out.err = UnsuableConstant(out.at)
    /\ out.at >= 1
    /\ IsWide(get(constants, out.at - 1).val)
    /\ get(constants, out.at + 1).ok

---------------------------------------------------------------------------
(* class_file_version.rs, in its two revisions: the one of the rsjvm crate *)
(* (src/class_file_version.rs, which class_file_reader.rs uses) and the    *)
(* one of the class-reader crate.                                          *)

UnsupportedMajorVersion(v) == <<"UnsupportedMajorVersion", v>>
UnsupportedMinorVersion(major, minor) == <<"UnsupportedMinorVersion", major, minor>>

\* enum MajorVersion, in declaration order (the order derive(PartialOrd)
\* compares by), class-reader crate.
MajorVersion ==
    <<"JavaSE_1_1", "JavaSE_1_2", "JavaSE_1_3", "JavaSE_1_4", "JavaSE_5_0", "JavaSE_6",
      "JavaSE_7", "JavaSE_8", "JavaSE_9", "JavaSE_10", "JavaSE_11", "JavaSE_12",
      "JavaSE_13", "JavaSE_14", "JavaSE_15", "JavaSE_16", "JavaSE_17", "JavaSE_18",
      "JavaSE_19", "JavaSE_20", "JavaSE_21", "JavaSE_22", "JavaSE_23">>

\* enum MajorVersion of the rsjvm crate: it ends at JavaSE_22.
MajorVersion_rsjvm == SubSeq(MajorVersion, 1, 22)

\* The discriminant of a variant: its place in the declaration.
Discriminant(name) == CHOOSE i \in 1..Len(MajorVersion) : MajorVersion[i] = name

\* The arms of the match in MajorVersion::try_from: value => variant.
MatchArms ==
    {<<45, "JavaSE_1_1">>, <<46, "JavaSE_1_2">>, <<47, "JavaSE_1_3">>,
     <<48, "JavaSE_1_4">>, <<49, "JavaSE_5_0">>, <<50, "JavaSE_6">>, <<51, "JavaSE_7">>,
     <<52, "JavaSE_8">>, <<53, "JavaSE_9">>, <<54, "JavaSE_10">>, <<55, "JavaSE_11">>,
     <<56, "JavaSE_12">>, <<57, "JavaSE_13">>, <<58, "JavaSE_14">>, <<59, "JavaSE_15">>,
     <<60, "JavaSE_16">>, <<61, "JavaSE_17">>, <<62, "JavaSE_18">>, <<63, "JavaSE_19">>,
     <<64, "JavaSE_20">>, <<65, "JavaSE_21">>, <<66, "JavaSE_22">>, <<67, "JavaSE_23">>}

MatchArms_rsjvm == {a \in MatchArms : a[2] # "JavaSE_23"}

Match(arms, value) ==
    IF \E a \in arms : a[1] = value
    THEN Ok((CHOOSE a \in arms : a[1] = value)[2])
    ELSE Err(UnsupportedMajorVersion(value))

\* MajorVersion::try_from, class-reader crate
MajorVersion_try_from(value) == Match(MatchArms, value)

\* MajorVersion::try_from, rsjvm crate
MajorVersion_try_from_rsjvm(value) == Match(MatchArms_rsjvm, value)

\* ClassFileVersion::from, class-reader crate
ClassFileVersion_from(major, minor) ==
    LET mv == MajorVersion_try_from(major)
    IN IF ~mv.ok THEN mv
       ELSE LET major_version == Discriminant(mv.val)
                is_invalid_minor ==
                    \/ (major_version = Discriminant("JavaSE_1_1") /\ minor >= 3)
                    \/ (major_version < Discriminant("JavaSE_12") /\ minor # 0)
                    \/ (minor # 0 /\ minor # 65535)
            IN IF is_invalid_minor THEN Err(UnsupportedMinorVersion(major, minor))
                                   ELSE Ok(<<mv.val, minor>>)

\* ClassFileVersion::from, rsjvm crate
ClassFileVersion_from_rsjvm(major, minor) ==
    LET mv == MajorVersion_try_from_rsjvm(major)
    IN IF ~mv.ok THEN mv
       ELSE IF Discriminant(mv.val) > Discriminant("JavaSE_11")
               /\ minor # 0 /\ minor # 65535
            THEN Err(UnsupportedMinorVersion(major, minor))
            ELSE Ok(<<mv.val, minor>>)

---------------------------------------------------------------------------
(* The version decoder on its own: calls on u16 values.                    *)

MajorSlack == 3     \* majors tried below 45 and above 67

Majors == (45 - MajorSlack)..(67 + MajorSlack) \cup {0, 100, 777, 65535}
Minors == {0, 1, 2, 3, 555, 65534, 65535}

InitVersion ==
    /\ byte_reader = ByteReader_new(<<>>)
    /\ reader_advances = FALSE
    /\ frame = Frame_new(0, 0)
    /\ overflow_checks = FALSE
    /\ constants = <<>>
    /\ class_file = ClassFile_default
    /\ pc = "version"
    /\ ran = <<>>
    /\ result = None
    /\ out = NoCall
    /\ calls = 0

VersionCall(name, major, minor, res) ==
    /\ pc = "version"
    /\ out' = [NoCall EXCEPT !.op = name, !.at = major, !.size = minor,
                             !.ok = res.ok, !.val = res.val, !.err = res.err]
    /\ UNCHANGED <<frame, overflow_checks,
                   byte_reader, reader_advances, constants, class_file, pc, ran,
                   result, calls>>

Call_try_from == \E v \in Majors :
    VersionCall("try_from", v, 0, MajorVersion_try_from(v))
Call_try_from_rsjvm == \E v \in Majors :
    VersionCall("try_from_rsjvm", v, 0, MajorVersion_try_from_rsjvm(v))
Call_from == \E major \in Majors, minor \in Minors :
    VersionCall("from", major, minor, ClassFileVersion_from(major, minor))
Call_from_rsjvm == \E major \in Majors, minor \in Minors :
    VersionCall("from_rsjvm", major, minor, ClassFileVersion_from_rsjvm(major, minor))

NextVersion ==
    \/ Call_try_from
    \/ Call_try_from_rsjvm
    \/ Call_from
    \/ Call_from_rsjvm

SpecVersion == InitVersion /\ [][NextVersion]_vars

\* C9: MajorVersion::try_from(v) succeeds exactly for v in 45..67, giving
\* the releases in ascending order (45 the first variant, 67 the last), and
\* fails with UnsupportedMajorVersion(v) for every other value.
C9_MajorVersionTable ==
    out.op \in {"try_from", "try_from_rsjvm"} =>
        IF out.at \in 45..67
        THEN out.ok /\ out.val = MajorVersion[out.at - 44]
        ELSE ~out.ok /\ out.err = UnsupportedMajorVersion(out.at)

\* C10: for a supported major, ClassFileVersion::from(major, minor) succeeds
\* if and only if (major = 45 and minor in 0..2) or (46 <= major <= 55 and
\* minor = 0) or (major >= 56 and minor in {0, 65535}); in every other case
\* it fails with UnsupportedMinorVersion(major, minor).
C10_MinorVersionPolicy ==
    (out.op \in {"from", "from_rsjvm"} /\ out.at \in 45..67) =>
        LET major == out.at
            minor == out.size
            allowed == \/ (major = 45 /\ minor \in {0, 1, 2})
                       \/ (major >= 46 /\ major <= 55 /\ minor = 0)
                       \/ (major >= 56 /\ minor \in {0, 65535})
        IN IF allowed THEN out.ok
           ELSE ~out.ok /\ out.err = UnsupportedMinorVersion(major, minor)

---------------------------------------------------------------------------
(* class_file_reader.rs: ClassFileReader { byte_reader, class_file }.      *)
(* A handler takes the reader's state st = [r |-> byte_reader,             *)
(* cf |-> class_file] and returns [ok, val, err, st]: what it returned and *)
(* the state it left.                                                      *)

Done(v, st) == [ok |-> TRUE, val |-> v, err |-> <<>>, st |-> st]
Fail(e, st) == [ok |-> FALSE, val |-> <<>>, err |-> e, st |-> st]

\* ClassReaderError: the variants built in place, and the #[from] wrappers.
InvalidMagicNumber(m) == <<"InvalidMagicNumber", m>>
\* A TagNotSupported that carries the tag's low four bits only.
TagNotSupported_low4(tag) == <<"TagNotSupported", tag % 16>>
TagNotSupported(tag) == <<"TagNotSupported", tag>>
UnexpectedConstant(expected, actual) == <<"UnexpectedConstant", expected, actual>>
ReadError(e) == <<"ReadError", e>>
FileVersionError(e) == <<"FileVersionError", e>>
ConstantPoolError(e) == <<"ConstantPoolError", e>>

\* A call self.byte_reader.read_x()? : the value, or the ReadError converted
\* by `?`; the reader is left as the read left it.
Lift(st, s) ==
    IF s.ok THEN Done(s.val, [st EXCEPT !.r = s.r])
            ELSE Fail(ReadError(s.err), [st EXCEPT !.r = s.r])

st_read_u8(st) == Lift(st, read_u8(st.r))
st_read_u16(st) == Lift(st, read_u16(st.r))
st_read_u32(st) == Lift(st, read_u32(st.r))
st_read_i32(st) == Lift(st, read_i32(st.r))
st_read_i64(st) == Lift(st, read_i64(st.r))
st_read_f32(st) == Lift(st, read_f32(st.r))
st_read_f64(st) == Lift(st, read_f64(st.r))
st_read_bytes(st, n) == Lift(st, read_bytes(st.r, n))
st_read_utf8(st, n) == Lift(st, read_utf8(st.r, n))

\* `expr?` and the rest of the function: K runs on the value expr returned
\* if it is Ok, and the function returns expr's Err if it is not.
Try(h, K(_)) == IF h.ok THEN K(h) ELSE h

\* `expr?` where the error of expr is converted into the handler's error by
\* E (a #[from] variant): expr is a result t without a reader state, st the
\* state the handler is in.
TryFrom(t, st, E(_), K(_)) == IF t.ok THEN K(t) ELSE Fail(E(t.err), st)

\* ByteReader::read_pair_u16, which byte_reader.rs does not have: two
\* consecutive read_u16, returned as a pair.
read_pair_u16(st) ==
    Try(st_read_u16(st), LAMBDA a :
    Try(st_read_u16(a.st), LAMBDA b :
    Done(<<a.val, b.val>>, b.st)))

\* ByteReader::snippet, which byte_reader.rs does not have: a window of the
\* buffer around the current offset.
SnippetRadius == 2
snippet(r) == SubSeq(r.buf, Max(1, r.pos + 1 - SnippetRadius),
                     Min(Len(r.buf), r.pos + 1 + SnippetRadius))

\* 0xCAFEBABE, as the two 16-bit halves of the u32.
MagicHi == 51966
MagicLo == 47806

\* ClassFileReader::read_magic_number
read_magic_number(st) ==
    Try(st_read_u32(st), LAMBDA magic :
    IF magic.val = <<MagicHi, MagicLo>> THEN Done(<<>>, magic.st)
    ELSE Fail(InvalidMagicNumber(magic.val), magic.st))

\* ClassFileReader::read_version
read_version(st) ==
    Try(st_read_u16(st), LAMBDA minor_version :
    Try(st_read_u16(minor_version.st), LAMBDA major_version :
    TryFrom(ClassFileVersion_from_rsjvm(major_version.val, minor_version.val),
            major_version.st, FileVersionError, LAMBDA v :
    Done(<<>>, [major_version.st EXCEPT !.cf.version = v.val]))))

\* One operand read of a constant: a single u16, a pair of u16, ...
Wrap1(name, s) == IF s.ok THEN [s EXCEPT !.val = <<name, s.val>>] ELSE s
Wrap2(name, s) == IF s.ok THEN [s EXCEPT !.val = <<name, s.val[1], s.val[2]>>] ELSE s

\* read_string_constant
read_string_constant(st) ==
    Try(st_read_u16(st), LAMBDA length :
    Wrap1("Utf8", st_read_utf8(length.st, length.val)))

\* read_method_handle
read_method_handle(st) ==
    Try(st_read_u8(st), LAMBDA reference_kind :
    Try(st_read_u16(reference_kind.st), LAMBDA reference_index :
    Done(<<"MethodHandle", reference_kind.val, reference_index.val>>,
         reference_index.st)))

\* The match on the tag in read_constant_pool, with the reader each arm calls.
ReadConstant(st, tag) ==
    CASE tag = 1 -> read_string_constant(st)
      [] tag = 3 -> Wrap1("Integer", st_read_i32(st))
      [] tag = 4 -> Wrap1("Float", st_read_f32(st))
      [] tag = 5 -> Wrap1("Long", st_read_i64(st))
      [] tag = 6 -> Wrap1("Double", st_read_f64(st))
      [] tag = 7 -> Wrap1("ClassIndex", st_read_u16(st))
      [] tag = 8 -> Wrap1("StringIndex", st_read_u16(st))
      [] tag = 9 -> Wrap2("FieldRef", read_pair_u16(st))
      [] tag = 10 -> Wrap2("MethodRef", read_pair_u16(st))
      [] tag = 11 -> Wrap2("InterfaceMethodRef", read_pair_u16(st))
      [] tag = 12 -> Wrap2("NameAndType", read_pair_u16(st))
      [] tag = 15 -> read_method_handle(st)
      [] tag = 16 -> Wrap1("MethodType", st_read_u16(st))
      [] tag = 17 -> Wrap2("Dynamic", read_pair_u16(st))
      [] tag = 18 -> Wrap2("InvokeDynamic", read_pair_u16(st))
      [] tag = 19 -> Wrap1("Module", st_read_u16(st))
      [] tag = 20 -> Wrap1("Package", st_read_u16(st))
      [] OTHER -> Fail(TagNotSupported(tag), st)

\* The value the range 1..constant_pool_count yields after `index`.  The
\* body's `index += 1` after a Long or Double changes the body's own copy
\* of the loop variable and not the range: the next value is index + 1
\* whatever the constant was.
NextIndex(index, constant) == index + 1

\* The loop of read_constant_pool from `index` on.  val counts the tagged
\* entries read.
RECURSIVE PoolLoop(_, _, _, _)
PoolLoop(st, index, constant_pool_count, nread) ==
    IF index >= constant_pool_count THEN Done(nread, st)
    ELSE Try(st_read_u8(st), LAMBDA tag :
         Try(ReadConstant(tag.st, tag.val), LAMBDA constant :
         PoolLoop([constant.st EXCEPT !.cf.constant_pool = add(@, constant.val)],
                  NextIndex(index, constant.val), constant_pool_count, nread + 1)))

\* ClassFileReader::read_constant_pool
read_constant_pool(st) ==
    Try(st_read_u16(st), LAMBDA constant_pool_count :
    PoolLoop(constant_pool_count.st, 1, constant_pool_count.val, 0))

\* mask & bit != 0
HasBit(mask, bit) == (mask \div bit) % 2 = 1

\* The pushes of an access-flag decoder: the flags whose bit is set, in the
\* order of the `if`s.
RECURSIVE DecodeFlags(_, _)
DecodeFlags(mask, table) ==
    IF Len(table) = 0 THEN <<>>
    ELSE (IF HasBit(mask, table[1][1]) THEN <<table[1][2]>> ELSE <<>>)
            \o DecodeFlags(mask, Tail(table))

\* A decoder that would test Super with the mask 0x0002.
ClassFileAccessFlags_new_super2(mask) ==
    DecodeFlags(mask, <<<<1, "Public">>, <<16, "Final">>, <<2, "Super">>,
                        <<512, "Interface">>, <<1024, "Abstract">>,
                        <<4096, "Synthetic">>, <<8192, "Annotation">>,
                        <<16384, "Enum">>, <<32768, "Module">>>>)

\* ClassFileAccessFlags::new (access_flag.rs)
ClassFileAccessFlags_new(mask) ==
    DecodeFlags(mask, <<<<1, "Public">>, <<16, "Final">>, <<32, "Super">>,
                        <<512, "Interface">>, <<1024, "Abstract">>,
                        <<4096, "Synthetic">>, <<8192, "Annotation">>,
                        <<16384, "Enum">>, <<32768, "Module">>>>)

\* ClassFileReader::read_access_flags
read_access_flags(st) ==
    Try(st_read_u16(st), LAMBDA mask :
    Done(<<>>, [mask.st EXCEPT !.cf.flags = ClassFileAccessFlags_new(mask.val)]))

\* self.class_file.constant_pool.get(index)? in a handler
pool_get(st, index) ==
    TryFrom(get(st.cf.constant_pool, index), st, ConstantPoolError, LAMBDA g :
    Done(g.val, st))

\* ClassFileReader::get_utf8
get_utf8(st, name_index) ==
    Try(pool_get(st, name_index), LAMBDA constant :
    IF constant.val[1] = "Utf8" THEN Done(constant.val[2], st)
    ELSE Fail(UnexpectedConstant("Utf8", Constant_name(constant.val)), st))

\* A get_class_name that takes the entry at name_index for the name itself.
get_class_name_direct(st, name_index) == get_utf8(st, name_index)

\* ClassFileReader::get_class_name
get_class_name(st, name_index) ==
    Try(pool_get(st, name_index), LAMBDA constant :
    IF constant.val[1] = "ClassIndex" THEN get_utf8(st, constant.val[2])
    ELSE Fail(UnexpectedConstant("ClassIndex", Constant_name(constant.val)), st))

\* ClassFileReader::read_this_class
read_this_class(st) ==
    Try(st_read_u16(st), LAMBDA name_index :
    Try(get_class_name(name_index.st, name_index.val), LAMBDA name :
    Done(<<>>, [name.st EXCEPT !.cf.this_class = name.val])))

\* ClassFileReader::read_super_class
read_super_class(st) ==
    Try(st_read_u16(st), LAMBDA name_index :
    IF name_index.val = 0 THEN Done(<<>>, name_index.st)
    ELSE Try(get_class_name(name_index.st, name_index.val), LAMBDA name :
         Done(<<>>, [name.st EXCEPT !.cf.super_class = Some(name.val)])))

\* The loop of read_interfaces: `left` iterations to go.
RECURSIVE InterfacesLoop(_, _, _)
InterfacesLoop(st, left, intefaces) ==
    IF left = 0 THEN Done(intefaces, st)
    ELSE Try(st_read_u16(st), LAMBDA name_index :
         Try(get_class_name(name_index.st, name_index.val), LAMBDA name :
         InterfacesLoop(name.st, left - 1, Append(intefaces, name.val))))

\* ClassFileReader::read_interfaces
read_interfaces(st) ==
    Try(st_read_u16(st), LAMBDA interfaces_count :
    Try(InterfacesLoop(interfaces_count.st, interfaces_count.val, <<>>), LAMBDA l :
    Done(<<>>, [l.st EXCEPT !.cf.interfaces = l.val])))

---------------------------------------------------------------------------
(* field.rs, method.rs: access flags and descriptors.  A string is the     *)
(* sequence of its characters' code points.                                *)

FieldError(e) == <<"FieldError", e>>
MethodParsingError(e) == <<"MethodParsingError", e>>

\* FieldAccessFlags::new (field.rs)
FieldAccessFlags_new(mask) ==
    DecodeFlags(mask, <<<<1, "Public">>, <<2, "Private">>, <<4, "Protected">>,
                        <<8, "Static">>, <<16, "Final">>, <<64, "Volatile">>,
                        <<128, "Transient">>, <<4096, "Synthetic">>,
                        <<16384, "Enum">>>>)

\* MethodAccessFlags::new (method.rs)
MethodAccessFlags_new(mask) ==
    DecodeFlags(mask, <<<<1, "Public">>, <<2, "Private">>, <<4, "Protected">>,
                        <<8, "Static">>, <<16, "Final">>, <<32, "Synchronized">>,
                        <<64, "Bridge">>, <<128, "Varargs">>, <<256, "Native">>,
                        <<1024, "Abstract">>, <<2048, "Strict">>,
                        <<4096, "Synthetic">>>>)

\* A table with the characters of Int and Long exchanged.
BaseTypes_IJ ==
    {<<66, "Byte">>, <<67, "Char">>, <<68, "Double">>, <<70, "Float">>, <<74, "Int">>,
     <<73, "Long">>, <<83, "Short">>, <<90, "Boolean">>}

\* The base types of FieldType::try_from, by descriptor character
\* (B C D F I J S Z).
BaseTypes ==
    {<<66, "Byte">>, <<67, "Char">>, <<68, "Double">>, <<70, "Float">>, <<73, "Int">>,
     <<74, "Long">>, <<83, "Short">>, <<90, "Boolean">>}

\* from_fn(|| chars.next_if(|&ch| ch != ';')).collect(): the characters up
\* to the first ';' (59), which stays unread.
RECURSIVE TakeName(_)
TakeName(chars) ==
    IF Len(chars) = 0 \/ chars[1] = 59 THEN <<>>
    ELSE <<chars[1]>> \o TakeName(Tail(chars))

\* FieldType::try_from.  Returns [ok, val, err, rest]: rest is what the
\* iterator has left.
RECURSIVE FieldType_try_from(_)
FieldType_try_from(chars) ==
    IF Len(chars) = 0
    THEN [ok |-> FALSE, val |-> <<>>, err |-> <<"UnexpectedEnd">>, rest |-> chars]
    ELSE LET c == chars[1]
             rest == Tail(chars)
         IN IF \E b \in BaseTypes : b[1] = c
            THEN [ok |-> TRUE, err |-> <<>>, rest |-> rest,
                  val |-> <<"Base", (CHOOSE b \in BaseTypes : b[1] = c)[2]>>]
            ELSE IF c = 76
            THEN LET class_name == TakeName(rest)
                     after == SubSeq(rest, Len(class_name) + 1, Len(rest))
                 IN IF Len(after) > 0
                    THEN [ok |-> TRUE, val |-> <<"Object", class_name>>, err |-> <<>>,
                          rest |-> Tail(after)]
                    ELSE [ok |-> FALSE, val |-> <<>>, err |-> <<"NoSemicolon">>,
                          rest |-> after]
            ELSE IF c = 91
            THEN LET element_type == FieldType_try_from(rest)
                 IN IF element_type.ok
                    THEN [element_type EXCEPT !.val = <<"Array", element_type.val>>]
                    ELSE element_type
            ELSE [ok |-> FALSE, val |-> <<>>, err |-> <<"InvalidDescriptor">>,
                  rest |-> rest]

\* The parameter loop of MethodDescriptor::try_from: field types up to ')'
\* (41) or the end of the characters.
RECURSIVE ParametersLoop(_, _)
ParametersLoop(chars, parameters) ==
    IF Len(chars) = 0 \/ chars[1] = 41
    THEN [ok |-> TRUE, val |-> parameters, err |-> <<>>, rest |-> chars]
    ELSE LET t == FieldType_try_from(chars)
         IN IF ~t.ok THEN [t EXCEPT !.err = <<"FieldError", t.err>>]
            ELSE ParametersLoop(t.rest, Append(parameters, t.val))

\* A parser without the test for ')' after the parameters.
MethodDescriptor_try_from_unclosed(chars) ==
    IF Len(chars) = 0 \/ chars[1] # 40
    THEN [ok |-> FALSE, val |-> <<>>, err |-> <<"NoOpeningBracket">>,
          rest |-> IF Len(chars) = 0 THEN chars ELSE Tail(chars)]
    ELSE LET ps == ParametersLoop(Tail(chars), <<>>)
             after == IF Len(ps.rest) = 0 THEN ps.rest ELSE Tail(ps.rest)
         IN IF ~ps.ok THEN ps
            ELSE IF Len(after) > 0 /\ after[1] = 86
            THEN [ok |-> TRUE, val |-> <<ps.val, <<"VoidDescriptor">>>>,
                  err |-> <<>>, rest |-> Tail(after)]
            ELSE LET t == FieldType_try_from(after)
                 IN IF ~t.ok THEN [t EXCEPT !.err = <<"FieldError", t.err>>]
                    ELSE [t EXCEPT !.val = <<ps.val, <<"FieldType", t.val>>>>]

\* MethodDescriptor::try_from
MethodDescriptor_try_from(chars) ==
    IF Len(chars) = 0 \/ chars[1] # 40
    THEN [ok |-> FALSE, val |-> <<>>, err |-> <<"NoOpeningBracket">>,
          rest |-> IF Len(chars) = 0 THEN chars ELSE Tail(chars)]
    ELSE LET ps == ParametersLoop(Tail(chars), <<>>)
         IN IF ~ps.ok THEN ps
            ELSE IF Len(ps.rest) = 0
            THEN [ok |-> FALSE, val |-> <<>>, err |-> <<"NoClosingBracket">>,
                  rest |-> ps.rest]
            ELSE LET after == Tail(ps.rest)
                 IN IF Len(after) > 0 /\ after[1] = 86
                    THEN [ok |-> TRUE, val |-> <<ps.val, <<"VoidDescriptor">>>>,
                          err |-> <<>>, rest |-> Tail(after)]
                    ELSE LET t == FieldType_try_from(after)
                         IN IF ~t.ok THEN [t EXCEPT !.err = <<"FieldError", t.err>>]
                            ELSE [t EXCEPT !.val = <<ps.val, <<"FieldType", t.val>>>>]

---------------------------------------------------------------------------
(* class_file_reader.rs: attributes and bytecode.                          *)

InvalidAttributeSize(actual, expected) == <<"InvalidAttributeSize", actual, expected>>
MismatchedConstantType(field_type, index) ==
    <<"MismatchedConstantType", field_type, index>>

\* An abort of the process (panic!, todo!): no value is returned to the
\* caller.  It travels up like an error and read_class never returns.
Panic(msg) == <<"panic", msg>>
IsPanic(e) == Len(e) > 0 /\ e[1] = "panic"

\* `length as usize` of a u32 <<hi, lo>>.  Every length from 2^30 on is
\* kept as 2^30: it is beyond the end of any buffer of the model.
AsUsize(u) == IF u[1] < 16384 THEN u[1] * 65536 + u[2] ELSE 1073741824

\* The names read_field and read_method dispatch on.
STR_ConstantValue == <<67, 111, 110, 115, 116, 97, 110, 116, 86, 97, 108, 117, 101>>
STR_Code == <<67, 111, 100, 101>>
STR_java_lang_String ==
    <<106, 97, 118, 97, 47, 108, 97, 110, 103, 47, 83, 116, 114, 105, 110, 103>>

\* A match whose Object arm would lack the guard on the class name.
ConstantMatchesType_any_class(field_type, constant) ==
    \/ /\ field_type[1] = "Base"
       /\ field_type[2] \in {"Int", "Short", "Char", "Byte", "Boolean"}
       /\ constant[1] = "Integer"
    \/ field_type = <<"Base", "Float">> /\ constant[1] = "Float"
    \/ field_type = <<"Base", "Long">> /\ constant[1] = "Long"
    \/ field_type = <<"Base", "Double">> /\ constant[1] = "Double"
    \/ field_type[1] = "Object" /\ constant[1] = "Utf8"

\* The match of read_constant_value_attr on (field type, constant).
ConstantMatchesType(field_type, constant) ==
    \/ /\ field_type[1] = "Base"
       /\ field_type[2] \in {"Int", "Short", "Char", "Byte", "Boolean"}
       /\ constant[1] = "Integer"
    \/ field_type = <<"Base", "Float">> /\ constant[1] = "Float"
    \/ field_type = <<"Base", "Long">> /\ constant[1] = "Long"
    \/ field_type = <<"Base", "Double">> /\ constant[1] = "Double"
    \/ /\ field_type[1] = "Object"
       /\ constant[1] = "Utf8"
       /\ field_type[2] = STR_java_lang_String

\* ClassFileReader::read_constant_value_attr
read_constant_value_attr(st, field_type) ==
    Try(st_read_u32(st), LAMBDA length :
    IF length.val # <<0, 2>>
    THEN Fail(InvalidAttributeSize(length.val, <<0, 2>>), length.st)
    ELSE Try(st_read_u16(length.st), LAMBDA constantvalue_index :
         Try(pool_get(constantvalue_index.st, constantvalue_index.val),
             LAMBDA constant_value :
         IF ConstantMatchesType(field_type, constant_value.val)
         THEN Done(<<"ConstantValue", constant_value.val>>, constant_value.st)
         ELSE Fail(MismatchedConstantType(field_type, constantvalue_index.val),
                   constant_value.st))))

\* ClassFileReader::read_user_defined_attr
read_user_defined_attr(st, name) ==
    Try(st_read_u32(st), LAMBDA length :
    Try(st_read_bytes(length.st, AsUsize(length.val)), LAMBDA info :
    Done(<<"UserDefined", name, info.val>>, info.st)))

\* The arms of the match in read_instruction: <<opcode, variant, operands>>.
\* Operands: "none"; "u8", "u16", "i16", "u8+i8", "u16+u8" read through
\* read_instruction_* (which count the bytes in `address`); "reader_u16" a
\* u16 read from the byte reader directly; "todo" an arm that is todo!().
Opcodes ==
    {<<50, "Aaload", "none">>, <<83, "Aastore", "none">>, <<1, "Aconst_null", "none">>,
     <<25, "Aload", "u8">>, <<42, "Aload_0", "none">>, <<43, "Aload_1", "none">>,
     <<44, "Aload_2", "none">>, <<45, "Aload_3", "none">>, <<189, "Anewarray", "u16">>,
     <<176, "Areturn", "none">>, <<190, "Arraylength", "none">>,
     <<58, "Astore", "u8">>, <<75, "Astore_0", "none">>, <<76, "Astore_1", "none">>,
     <<77, "Astore_2", "none">>, <<78, "Astore_3", "none">>, <<191, "Athrow", "none">>,
     <<51, "Baload", "none">>, <<84, "Bastore", "none">>, <<16, "Bipush", "u8">>,
     <<52, "Caload", "none">>, <<85, "Castore", "none">>, <<192, "Checkcast", "u16">>,
     <<144, "D2f", "none">>, <<142, "D2i", "none">>, <<143, "D2l", "none">>,
     <<99, "Dadd", "none">>, <<49, "Daload", "none">>, <<82, "Dastore", "none">>,
     <<152, "Dcmpg", "none">>, <<151, "Dcmpl", "none">>, <<14, "Dconst_0", "none">>,
     <<15, "Dconst_1", "none">>, <<111, "Ddiv", "none">>, <<24, "Dload", "u8">>,
     <<38, "Dload_0", "none">>, <<39, "Dload_1", "none">>, <<40, "Dload_2", "none">>,
     <<41, "Dload_3", "none">>, <<107, "Dmul", "none">>, <<119, "Dneg", "none">>,
     <<115, "Drem", "none">>, <<175, "Dreturn", "none">>, <<57, "Dstore", "u8">>,
     <<71, "Dstore_0", "none">>, <<72, "Dstore_1", "none">>,
     <<73, "Dstore_2", "none">>, <<74, "Dstore_3", "none">>, <<103, "Dsub", "none">>,
     <<89, "Dup", "none">>, <<90, "Dup_x1", "none">>, <<91, "Dup_x2", "none">>,
     <<92, "Dup_2", "none">>, <<93, "Dup2_x1", "none">>, <<94, "Dup2_x2", "none">>,
     <<141, "F2d", "none">>, <<139, "F2i", "none">>, <<140, "F2l", "none">>,
     <<98, "Fadd", "none">>, <<48, "Faload", "none">>, <<81, "Fastore", "none">>,
     <<150, "Fcmpg", "none">>, <<149, "Fcmpl", "none">>, <<11, "Fconst_0", "none">>,
     <<12, "Fconst_1", "none">>, <<13, "Fconst_2", "none">>, <<110, "Fdiv", "none">>,
     <<23, "Fload", "u8">>, <<34, "Fload_0", "none">>, <<35, "Fload_1", "none">>,
     <<36, "Fload_2", "none">>, <<37, "Fload_3", "none">>, <<106, "Fmul", "none">>,
     <<118, "Fneg", "none">>, <<114, "Frem", "none">>, <<174, "Freturn", "none">>,
     <<56, "Fstore", "u8">>, <<67, "Fstore_0", "none">>, <<68, "Fstore_1", "none">>,
     <<69, "Fstore_2", "none">>, <<70, "Fstore_3", "none">>, <<102, "Fsub", "none">>,
     <<180, "Getfield", "u16">>, <<178, "Getstatic", "u16">>, <<167, "Goto", "todo">>,
     <<200, "Goto_w", "todo">>, <<145, "I2b", "none">>, <<146, "I2c", "none">>,
     <<135, "I2d", "none">>, <<134, "I2f", "none">>, <<133, "I2l", "none">>,
     <<147, "I2s", "none">>, <<96, "Iadd", "none">>, <<46, "Iaload", "none">>,
     <<126, "Iand", "none">>, <<79, "Iastore", "none">>, <<2, "Iconst_m1", "none">>,
     <<3, "Iconst_0", "none">>, <<4, "Iconst_1", "none">>, <<5, "Iconst_2", "none">>,
     <<6, "Iconst_3", "none">>, <<7, "Iconst_4", "none">>, <<8, "Iconst_5", "none">>,
     <<108, "Idiv", "none">>, <<165, "If_acmpeq", "reader_u16">>,
     <<166, "If_acmpne", "reader_u16">>, <<159, "If_icmpeq", "reader_u16">>,
     <<160, "If_icmpne", "reader_u16">>, <<161, "If_icmplt", "reader_u16">>,
     <<162, "If_icmpge", "reader_u16">>, <<163, "If_icmpgt", "reader_u16">>,
     <<164, "If_icmple", "reader_u16">>, <<153, "Ifeq", "reader_u16">>,
     <<154, "Ifne", "reader_u16">>, <<155, "Iflt", "reader_u16">>,
     <<156, "Ifge", "reader_u16">>, <<157, "Ifgt", "reader_u16">>,
     <<158, "Ifle", "reader_u16">>, <<199, "Ifnonnull", "reader_u16">>,
     <<198, "Ifnull", "reader_u16">>, <<132, "Iinc", "u8+i8">>, <<21, "Iload", "u8">>,
     <<26, "Iload_0", "none">>, <<27, "Iload_1", "none">>, <<28, "Iload_2", "none">>,
     <<29, "Iload_3", "none">>, <<104, "Imul", "none">>, <<116, "Ineg", "none">>,
     <<193, "Instanceof", "u16">>, <<186, "Invokedynamic", "u16">>,
     <<183, "Invokespecial", "u16">>, <<184, "Invokestatic", "u16">>,
     <<182, "Invokevirtual", "u16">>, <<128, "Ior", "none">>, <<112, "Irem", "none">>,
     <<172, "Ireturn", "none">>, <<120, "Ishl", "none">>, <<122, "Ishr", "none">>,
     <<54, "Istore", "u8">>, <<59, "Istore_0", "none">>, <<60, "Istore_1", "none">>,
     <<61, "Istore_2", "none">>, <<62, "Istore_3", "none">>, <<100, "Isub", "none">>,
     <<124, "Iushr", "none">>, <<130, "Ixor", "none">>, <<168, "Jsr", "todo">>,
     <<201, "Jsr_w", "todo">>, <<138, "L2d", "none">>, <<137, "L2f", "none">>,
     <<136, "L2i", "none">>, <<97, "Ladd", "none">>, <<47, "Laload", "none">>,
     <<127, "Land", "none">>, <<80, "Lastore", "none">>, <<148, "Lcmp", "none">>,
     <<9, "Lconst_0", "none">>, <<10, "Lconst_1", "none">>, <<18, "Ldc", "u8">>,
     <<19, "Ldc_w", "u16">>, <<20, "Ldc2_w", "u16">>, <<109, "Ldiv", "none">>,
     <<22, "Lload", "u8">>, <<30, "Lload_0", "none">>, <<31, "Lload_1", "none">>,
     <<32, "Lload_2", "none">>, <<33, "Lload_3", "none">>, <<105, "Lmul", "none">>,
     <<117, "Lneg", "none">>, <<171, "Lookupswitch", "todo">>, <<129, "Lor", "none">>,
     <<113, "Lrem", "none">>, <<173, "Lreturn", "none">>, <<121, "Lshl", "none">>,
     <<123, "Lshr", "none">>, <<55, "Lstore", "u8">>, <<63, "Lstore_0", "none">>,
     <<64, "Lstore_1", "none">>, <<65, "Lstore_2", "none">>,
     <<66, "Lstore_3", "none">>, <<101, "Lsub", "none">>, <<125, "Lushr", "none">>,
     <<131, "Lxor", "none">>, <<194, "Monitorenter", "none">>,
     <<195, "Monitorexit", "none">>, <<197, "Multianewarray", "u16+u8">>,
     <<187, "New", "u16">>, <<188, "Newarray", "todo">>, <<0, "Nop", "none">>,
     <<87, "Pop", "none">>, <<88, "Pop2", "none">>, <<181, "Putfield", "u16">>,
     <<179, "Putstatic", "u16">>, <<169, "Ret", "u8">>, <<177, "Return", "none">>,
     <<53, "Saload", "none">>, <<86, "Sastore", "none">>, <<17, "Sipush", "i16">>,
     <<95, "Swap", "none">>, <<170, "Tableswitch", "todo">>, <<196, "Wide", "todo">>}

\* read_instruction_u8 / read_instruction_u16 / _i8 / _i16.  val is
\* <<value, address>>.
read_instruction_u8(st, address) ==
    Try(st_read_u8(st), LAMBDA b : Done(<<b.val, address + 1>>, b.st))

read_instruction_u16(st, address) ==
    Try(read_instruction_u8(st, address), LAMBDA index_byte1 :
    Try(read_instruction_u8(index_byte1.st, index_byte1.val[2]), LAMBDA index_byte2 :
    Done(<<index_byte1.val[1] * 256 + index_byte2.val[1], index_byte2.val[2]>>,
         index_byte2.st)))

AsI8(b) == IF b >= 128 THEN b - 256 ELSE b
AsI16(v) == IF v >= 32768 THEN v - 65536 ELSE v

read_instruction_i8(st, address) ==
    Try(read_instruction_u8(st, address), LAMBDA b :
    Done(<<AsI8(b.val[1]), b.val[2]>>, b.st))

read_instruction_i16(st, address) ==
    Try(read_instruction_u16(st, address), LAMBDA v :
    Done(<<AsI16(v.val[1]), v.val[2]>>, v.st))

\* The operands of one arm.  val is <<operands, address>>.
ReadOperands(st, kind, address) ==
    CASE kind = "none" -> Done(<<<<>>, address>>, st)
      [] kind = "u8" ->
            Try(read_instruction_u8(st, address), LAMBDA a :
            Done(<<<<a.val[1]>>, a.val[2]>>, a.st))
      [] kind = "u16" ->
            Try(read_instruction_u16(st, address), LAMBDA a :
            Done(<<<<a.val[1]>>, a.val[2]>>, a.st))
      [] kind = "i16" ->
            Try(read_instruction_i16(st, address), LAMBDA a :
            Done(<<<<a.val[1]>>, a.val[2]>>, a.st))
      [] kind = "reader_u16" ->
            Try(st_read_u16(st), LAMBDA a : Done(<<<<a.val>>, address>>, a.st))
      [] kind = "u8+i8" ->
            Try(read_instruction_u8(st, address), LAMBDA a :
            Try(read_instruction_i8(a.st, a.val[2]), LAMBDA b :
            Done(<<<<a.val[1], b.val[1]>>, b.val[2]>>, b.st)))
      [] kind = "u16+u8" ->
            Try(read_instruction_u16(st, address), LAMBDA a :
            Try(read_instruction_u8(a.st, a.val[2]), LAMBDA b :
            Done(<<<<a.val[1], b.val[1]>>, b.val[2]>>, b.st)))

\* The arm of the match in read_instruction that `index` selects.
HasArm(index) == \E a \in Opcodes : a[1] = index
Arm(index) == CHOOSE a \in Opcodes : a[1] = index

\* An arm that would return the address after the instruction instead of
\* current_address.
ReadArm_address_after(st, arm, address) ==
    IF arm[3] = "todo" THEN Fail(Panic(arm[2]), st)
    ELSE Try(ReadOperands(st, arm[3], address + 1), LAMBDA ops :
         Done(<<<<<<arm[2]>> \o ops.val[1], ops.val[2]>>, ops.val[2]>>, ops.st))

\* One arm of read_instruction: its operands, then the instruction with the
\* address it started at.
ReadArm(st, arm, address) ==
    IF arm[3] = "todo" THEN Fail(Panic(arm[2]), st)
    ELSE Try(ReadOperands(st, arm[3], address + 1), LAMBDA ops :
         Done(<<<<<<arm[2]>> \o ops.val[1], address>>, ops.val[2]>>, ops.st))

\* ClassFileReader::read_instruction.  val is
\* <<(instruction, current_address), address>>.
read_instruction(st, index, address) ==
    IF ~HasArm(index) THEN Fail(Panic("at the disco"), st)
    ELSE ReadArm(st, Arm(index), address)

\* bytes_read < code_length, code_length a u32 <<hi, lo>> and bytes_read
\* below 2^16 (it counts bytes of a buffer of the model).
LessThanU32(n, u) == u[1] > 0 \/ n < u[2]

\* The while loop of read_code_attr.
RECURSIVE CodeLoop(_, _, _, _)
CodeLoop(st, bytes_read, code_length, instructions) ==
    IF ~LessThanU32(bytes_read, code_length) THEN Done(instructions, st)
    ELSE Try(st_read_u8(st), LAMBDA index :
         Try(read_instruction(index.st, index.val, bytes_read), LAMBDA i :
         CodeLoop(i.st, i.val[2], code_length, Append(instructions, i.val[1]))))

\* ClassFileReader::read_code_attr
read_code_attr(st) ==
    Try(st_read_u32(st), LAMBDA length :
    Try(st_read_u16(length.st), LAMBDA max_stack :
    Try(st_read_u16(max_stack.st), LAMBDA max_locals :
    Try(st_read_u32(max_locals.st), LAMBDA code_length :
    Try(CodeLoop(code_length.st, 0, code_length.val, <<>>), LAMBDA l :
    Done([kind |-> "Code",
          max_stack |-> max_stack.val,
          max_locals |-> max_locals.val,
          code |-> l.val,
          exception_table |-> <<>>,
          attributes |-> <<>>], l.st))))))

\* The attribute loop of read_field: `left` iterations to go.
RECURSIVE FieldAttributesLoop(_, _, _, _)
FieldAttributesLoop(st, left, type_descriptor, attributes) ==
    IF left = 0 THEN Done(attributes, st)
    ELSE Try(st_read_u16(st), LAMBDA name_index :
         Try(get_utf8(name_index.st, name_index.val), LAMBDA name :
         Try(IF name.val = STR_ConstantValue
             THEN read_constant_value_attr(name.st, type_descriptor)
             ELSE read_user_defined_attr(name.st, name.val), LAMBDA attr :
         FieldAttributesLoop(attr.st, left - 1, type_descriptor,
                             Append(attributes, attr.val)))))

\* ClassFileReader::read_field
read_field(st) ==
    Try(read_pair_u16(st), LAMBDA p1 :
    Try(get_utf8(p1.st, p1.val[2]), LAMBDA name :
    Try(read_pair_u16(name.st), LAMBDA p2 :
    Try(get_utf8(p2.st, p2.val[1]), LAMBDA field_descriptor_utf8 :
    TryFrom(FieldType_try_from(field_descriptor_utf8.val), field_descriptor_utf8.st,
            FieldError, LAMBDA type_descriptor :
    Try(FieldAttributesLoop(field_descriptor_utf8.st, p2.val[2],
                            type_descriptor.val, <<>>), LAMBDA as :
    Done([flags |-> FieldAccessFlags_new(p1.val[1]),
          name |-> name.val,
          type_descriptor |-> type_descriptor.val,
          attributes |-> as.val], as.st)))))))

\* The attribute loop of read_method.
RECURSIVE MethodAttributesLoop(_, _, _)
MethodAttributesLoop(st, left, attributes) ==
    IF left = 0 THEN Done(attributes, st)
    ELSE Try(st_read_u16(st), LAMBDA name_index :
         Try(get_utf8(name_index.st, name_index.val), LAMBDA name :
         Try(IF name.val = STR_Code
             THEN read_code_attr(name.st)
             ELSE read_user_defined_attr(name.st, name.val), LAMBDA attr :
         MethodAttributesLoop(attr.st, left - 1, Append(attributes, attr.val)))))

\* ClassFileReader::read_method
read_method(st) ==
    Try(read_pair_u16(st), LAMBDA p1 :
    Try(get_utf8(p1.st, p1.val[2]), LAMBDA name :
    Try(read_pair_u16(name.st), LAMBDA p2 :
    Try(get_utf8(p2.st, p2.val[1]), LAMBDA descriptor :
    TryFrom(MethodDescriptor_try_from(descriptor.val), descriptor.st,
            MethodParsingError, LAMBDA type_descriptor :
    Try(MethodAttributesLoop(descriptor.st, p2.val[2], <<>>), LAMBDA as :
    Done([flags |-> MethodAccessFlags_new(p1.val[1]),
          name |-> name.val,
          type_descriptor |-> type_descriptor.val,
          attributes |-> as.val], as.st)))))))

\* The loop of read_fields: `left` fields to go.
RECURSIVE FieldsLoop(_, _, _)
FieldsLoop(st, left, fields) ==
    IF left = 0 THEN Done(fields, st)
    ELSE Try(read_field(st), LAMBDA f :
         FieldsLoop(f.st, left - 1, Append(fields, f.val)))

\* The loop of read_methods: `left` methods to go.
RECURSIVE MethodsLoop(_, _, _)
MethodsLoop(st, left, methods) ==
    IF left = 0 THEN Done(methods, st)
    ELSE Try(read_method(st), LAMBDA m :
         MethodsLoop(m.st, left - 1, Append(methods, m.val)))

\* ClassFileReader::read_fields
read_fields(st) ==
    Try(st_read_u16(st), LAMBDA fields_count :
    Try(FieldsLoop(fields_count.st, fields_count.val, <<>>), LAMBDA l :
    Done(<<>>, [l.st EXCEPT !.cf.fields = l.val])))

\* ClassFileReader::read_methods
read_methods(st) ==
    Try(st_read_u16(st), LAMBDA methods_count :
    Try(MethodsLoop(methods_count.st, methods_count.val, <<>>), LAMBDA l :
    Done(<<>>, [l.st EXCEPT !.cf.methods = l.val])))

---------------------------------------------------------------------------
(* ClassFileReader::read_class and ClassFileReader::read: one step per     *)
(* section call of read().                                                 *)

\* ContextualError::new
ContextualError_new(err, snip) == [err |-> err, snippet |-> snip]

\* What read_class returns when a section call of read() returned `h`:
\* nothing yet if it succeeded, Err(ContextualError) if it failed; a panic
\* aborts the call.
Outcome(h) ==
    IF h.ok THEN None
    ELSE IF IsPanic(h.err) THEN <<"Panic", h.err[2]>>
    ELSE <<"Err", ContextualError_new(h.err, snippet(h.st.r))>>

\* A read() that goes on to the next call whatever the section returned.
PropagateNothing(ok, next) == next

\* The `?` after a section call in read(): go on to the next call on Ok,
\* return on Err.
Propagate(ok, next) == IF ok THEN next ELSE "done"

\* One section call of read().
Section(name, next, h) ==
    /\ pc = name
    /\ byte_reader' = h.st.r
    /\ class_file' = h.st.cf
    /\ ran' = Append(ran, <<name, h.st.r.pos>>)
    /\ pc' = Propagate(h.ok, next)
    /\ result' = Outcome(h)
    /\ out' = [NoCall EXCEPT !.op = name, !.ok = h.ok, !.err = h.err, !.val = h.val,
                             !.at = Len(h.st.r.log)]
    /\ calls' = calls + 1
    /\ UNCHANGED <<frame, overflow_checks, reader_advances, constants>>

Self == [r |-> byte_reader, cf |-> class_file]

Step_read_magic_number == Section("magic", "version", read_magic_number(Self))
Step_read_version == Section("version", "constant_pool", read_version(Self))
Step_read_constant_pool ==
    Section("constant_pool", "access_flags", read_constant_pool(Self))
Step_read_access_flags == Section("access_flags", "this_class", read_access_flags(Self))
Step_read_this_class == Section("this_class", "super_class", read_this_class(Self))
Step_read_super_class == Section("super_class", "interfaces", read_super_class(Self))
Step_read_interfaces == Section("interfaces", "fields", read_interfaces(Self))
Step_read_fields == Section("fields", "methods", read_fields(Self))
Step_read_methods == Section("methods", "return", read_methods(Self))

\* Ok(self.class_file.clone()), handed on by read_class.  The call of
\* read_class_attributes before it is commented out.
Step_return ==
    /\ pc = "return"
    /\ result' = <<"Ok", class_file>>
    /\ pc' = "done"
    /\ UNCHANGED <<frame, overflow_checks,
                   byte_reader, reader_advances, constants, class_file, ran, out, calls>>

NextParse ==
    \/ Step_read_magic_number
    \/ Step_read_version
    \/ Step_read_constant_pool
    \/ Step_read_access_flags
    \/ Step_read_this_class
    \/ Step_read_super_class
    \/ Step_read_interfaces
    \/ Step_read_fields
    \/ Step_read_methods
    \/ Step_return

---------------------------------------------------------------------------
(* The class files handed to read_class.                                   *)

U16(n) == <<n \div 256, n % 256>>
U32(n) == <<0, 0>> \o U16(n)

RECURSIVE Flatten(_)
Flatten(ss) == IF Len(ss) = 0 THEN <<>> ELSE ss[1] \o Flatten(Tail(ss))

E_Utf8(str) == <<1>> \o U16(Len(str)) \o str
E_Integer(n) == <<3>> \o U32(n)
E_Float(n) == <<4>> \o U32(n)
E_Long(n) == <<5>> \o U32(0) \o U32(n)
E_Double(n) == <<6>> \o U32(0) \o U32(n)
E_One(tag, a) == <<tag>> \o U16(a)
E_Two(tag, a, b) == <<tag>> \o U16(a) \o U16(b)
E_MethodHandle(kind, a) == <<15, kind>> \o U16(a)

STR_A == <<65>>
STR_I == <<73>>
STR_V == <<40, 41, 86>>
STR_X == <<88>>

\* A field: access flags, name, descriptor, attributes.
F_Field(flags, name, descriptor, attrs) ==
    U16(flags) \o U16(name) \o U16(descriptor) \o U16(Len(attrs)) \o Flatten(attrs)
\* An attribute: name index, u32 length, info.
A_Attr(name, info) == U16(name) \o U32(Len(info)) \o info
A_AttrLen(name, length, info) == U16(name) \o U32(length) \o info
\* The info of a Code attribute as JVMS lays it out: max_stack, max_locals,
\* code, an empty exception table and no attributes.
A_CodeInfo(code) == U16(1) \o U16(1) \o U32(Len(code)) \o code \o U16(0) \o U16(0)
\* The same up to the end of the code.
A_CodeHead(code) == U16(1) \o U16(1) \o U32(Len(code)) \o code
\* The same with an exception table of handlers <<start_pc, end_pc,
\* handler_pc, catch_type>> and no attributes.
A_CodeTable(code, handlers) ==
    A_CodeHead(code) \o U16(Len(handlers))
        \o Flatten([k \in 1..Len(handlers) |->
                       U16(handlers[k][1]) \o U16(handlers[k][2])
                           \o U16(handlers[k][3]) \o U16(handlers[k][4])])
        \o U16(0)

\* The bytes of a class file described by a record.
File(f) ==
    f.magic \o U16(f.minor) \o U16(f.major) \o U16(f.count) \o Flatten(f.pool)
        \o U16(f.flags) \o U16(f.this) \o U16(f.super)
        \o U16(Len(f.interfaces)) \o Flatten([i \in 1..Len(f.interfaces) |->
                                                U16(f.interfaces[i])])
        \o U16(Len(f.fields)) \o Flatten(f.fields)
        \o U16(Len(f.methods)) \o Flatten(f.methods)
        \o U16(Len(f.attributes)) \o Flatten(f.attributes)

\* The pool of the files below, as the reader numbers it: position 0 is
\* "A", 1 the class A, 2 "I", 3 "()V", 4 "Code", 5 "ConstantValue", 6 the
\* integer 7, 7 "X".
BasePool ==
    <<E_Utf8(STR_A), E_One(7, 0), E_Utf8(STR_I), E_Utf8(STR_V), E_Utf8(STR_Code),
      E_Utf8(STR_ConstantValue), E_Integer(7), E_Utf8(STR_X)>>

\* The same pool with the references of JVMS: index 1 is the first entry.
JvmsPool ==
    <<E_Utf8(STR_A), E_One(7, 1), E_Utf8(STR_I), E_Utf8(STR_V), E_Utf8(STR_Code),
      E_Utf8(STR_ConstantValue), E_Integer(7), E_Utf8(STR_X)>>

\* A file read_class accepts: one field with a ConstantValue, one method
\* with Code (iconst_0, istore_0, return), one class-level attribute "X".
Base ==
    [magic |-> <<202, 254, 186, 190>>, minor |-> 0, major |-> 52,
     count |-> 9, pool |-> BasePool, flags |-> 33, this |-> 1, super |-> 1,
     interfaces |-> <<1>>,
     fields |-> <<F_Field(25, 0, 2, <<A_Attr(5, U16(6))>>)>>,
     methods |-> <<F_Field(1, 0, 3, <<A_Attr(4, A_CodeHead(<<3, 59, 177>>))>>)>>,
     attributes |-> <<A_Attr(7, <<9>>)>>]

\* The same class as JVMS lays it out.
Jvms ==
    [Base EXCEPT !.pool = JvmsPool, !.this = 2, !.super = 2, !.interfaces = <<2>>,
        !.fields = <<F_Field(25, 1, 3, <<A_Attr(6, U16(7))>>)>>,
        !.methods = <<F_Field(1, 1, 4, <<A_Attr(5, A_CodeInfo(<<3, 59, 177>>))>>)>>,
        !.attributes = <<A_Attr(8, <<9>>)>>]

\* Scenario 1 of the specification: an empty class of Java SE 8.
Empty ==
    [Base EXCEPT !.count = 1, !.pool = <<>>, !.flags = 0, !.this = 0, !.super = 0,
        !.interfaces = <<>>, !.fields = <<>>, !.methods = <<>>, !.attributes = <<>>]

\* A class with no members: the pool is all that varies.
Bare ==
    [Base EXCEPT !.fields = <<>>, !.methods = <<>>, !.attributes = <<>>]

Variants ==
    {Base, Jvms, Empty, Bare,
     [Base EXCEPT !.magic = <<222, 173, 190, 239>>],
     [Base EXCEPT !.magic = <<190, 186, 254, 202>>],
     [Base EXCEPT !.major = 100],
     [Base EXCEPT !.major = 67],
     [Base EXCEPT !.major = 44],
     [Base EXCEPT !.major = 45, !.minor = 3],
     [Base EXCEPT !.major = 45, !.minor = 555],
     [Base EXCEPT !.major = 65, !.minor = 555],
     [Base EXCEPT !.major = 65, !.minor = 65535],
     [Base EXCEPT !.count = 0],
     [Base EXCEPT !.count = 8],
     [Base EXCEPT !.count = 10],
     [Base EXCEPT !.flags = 65535],
     [Base EXCEPT !.this = 0],
     [Base EXCEPT !.this = 9],
     [Base EXCEPT !.super = 0],
     [Base EXCEPT !.super = 6],
     [Base EXCEPT !.interfaces = <<>>],
     [Base EXCEPT !.interfaces = <<1, 1>>],
     [Base EXCEPT !.interfaces = <<1, 2>>],
     [Base EXCEPT !.fields = <<>>],
     [Base EXCEPT !.fields = <<F_Field(25, 0, 2, <<>>), F_Field(2, 7, 2, <<>>)>>],
     [Base EXCEPT !.fields = <<F_Field(25, 0, 2, <<A_Attr(7, <<1, 2>>)>>)>>],
     [Base EXCEPT !.fields = <<F_Field(25, 0, 2, <<A_AttrLen(7, 9, <<1, 2>>)>>)>>],
     [Base EXCEPT !.fields = <<F_Field(25, 0, 2, <<A_Attr(5, <<0, 0, 6>>)>>)>>],
     [Base EXCEPT !.fields = <<F_Field(25, 0, 2, <<A_Attr(5, U16(0))>>)>>],
     [Base EXCEPT !.fields = <<F_Field(25, 0, 0, <<>>)>>],
     [Base EXCEPT !.fields = <<F_Field(25, 1, 2, <<>>)>>],
     [Base EXCEPT !.methods = <<>>],
     [Base EXCEPT !.methods = <<F_Field(1, 0, 3, <<>>), F_Field(9, 7, 3, <<>>)>>],
     [Base EXCEPT !.methods = <<F_Field(1, 0, 2, <<>>)>>],
     [Base EXCEPT !.methods = <<F_Field(1, 0, 3, <<A_Attr(7, <<>>)>>)>>],
     [Base EXCEPT !.methods =
        <<F_Field(1, 0, 3, <<A_Attr(4, A_CodeInfo(<<3, 59, 177>>))>>)>>],
     [Base EXCEPT !.methods =
        <<F_Field(1, 0, 3, <<A_Attr(4, A_CodeHead(<<16, 5, 153, 0, 3, 177>>))>>)>>],
     [Base EXCEPT !.methods =
        <<F_Field(1, 0, 3, <<A_Attr(4, A_CodeHead(<<185, 0, 1, 1, 0, 177>>))>>)>>],
     [Base EXCEPT !.methods =
        <<F_Field(1, 0, 3, <<A_Attr(4, A_CodeHead(<<167, 0, 3, 177>>))>>)>>],
     [Base EXCEPT !.methods =
        <<F_Field(1, 0, 3, <<A_Attr(4, A_CodeHead(<<197, 0, 1, 2, 177>>))>>)>>],
     [Base EXCEPT !.methods =
        <<F_Field(1, 0, 3, <<A_Attr(4, A_CodeHead(<<203, 177>>))>>)>>],
     [Base EXCEPT !.methods =
        <<F_Field(1, 0, 3, <<A_Attr(4, A_CodeHead(<<188, 10, 177>>))>>)>>],
     [Base EXCEPT !.methods =
        <<F_Field(1, 0, 3, <<A_AttrLen(4, 7, A_CodeHead(<<3, 59, 177>>))>>)>>],
     [Base EXCEPT !.methods =
        <<F_Field(1, 0, 3, <<A_Attr(4, A_CodeTable(<<3, 59, 177>>,
                                                   <<<<0, 1, 2, 0>>>>))>>)>>],
     [Base EXCEPT !.attributes = <<>>],
     [Bare EXCEPT !.count = 3, !.pool = <<E_Long(5), E_Integer(7)>>],
     [Bare EXCEPT !.count = 4, !.pool = <<E_Long(5), E_Integer(7)>>],
     [Bare EXCEPT !.count = 3, !.pool = <<E_Utf8(STR_A), E_One(7, 0)>>],
     [Bare EXCEPT !.count = 4, !.pool = <<E_Utf8(STR_A), E_One(7, 0), E_One(7, 9)>>],
     [Bare EXCEPT !.count = 4, !.pool = <<E_Utf8(STR_A), E_One(7, 0), E_One(7, 1)>>],
     [Bare EXCEPT !.count = 4, !.pool = <<E_Utf8(STR_A), E_One(7, 0), E_Two(12, 1, 7)>>],
     [Bare EXCEPT !.count = 4, !.pool = <<E_Utf8(STR_A), E_One(7, 0), E_Double(1)>>],
     [Bare EXCEPT !.count = 5, !.pool = <<E_Utf8(STR_A), E_One(7, 0), E_Double(1)>>],
     [Bare EXCEPT !.count = 4, !.pool = <<E_Utf8(STR_A), E_One(7, 0), <<2>>>>],
     [Bare EXCEPT !.count = 4, !.pool = <<E_Utf8(STR_A), E_One(7, 0), <<0>>>>],
     [Bare EXCEPT !.count = 4, !.pool = <<E_Utf8(STR_A), E_One(7, 0), <<21>>>>],
     [Bare EXCEPT !.count = 4, !.pool = <<E_Utf8(STR_A), E_One(7, 0), E_Utf8(<<255>>)>>],
     [Bare EXCEPT !.count = 7,
        !.pool = <<E_Utf8(STR_A), E_One(7, 0), E_Float(1), E_One(8, 0),
                   E_Two(9, 1, 5), E_Two(10, 1, 5)>>],
     [Bare EXCEPT !.count = 7,
        !.pool = <<E_Utf8(STR_A), E_One(7, 0), E_Two(11, 1, 5), E_Two(12, 0, 0),
                   E_MethodHandle(1, 4), E_One(16, 0)>>],
     [Bare EXCEPT !.count = 7,
        !.pool = <<E_Utf8(STR_A), E_One(7, 0), E_Two(17, 0, 3), E_Two(18, 0, 3),
                   E_One(19, 0), E_One(20, 0)>>]}

\* Files cut short: every prefix of the files that are cut.
CutFiles == {Base, Jvms, Empty}
ClassFiles ==
    {File(f) : f \in Variants}
        \cup UNION {Prefixes(File(f), Len(File(f))) : f \in CutFiles}

InitParse ==
    /\ byte_reader \in {ByteReader_new(d) : d \in ClassFiles}
    /\ reader_advances \in BOOLEAN
    /\ frame = Frame_new(0, 0)
    /\ overflow_checks = FALSE
    /\ constants = <<>>
    /\ class_file = ClassFile_default
    /\ pc = "magic"
    /\ ran = <<>>
    /\ result = None
    /\ out = NoCall
    /\ calls = 0

Spec == InitParse /\ [][NextParse]_vars

---------------------------------------------------------------------------
(* Properties of read_class.                                               *)

\* The sections read() has entered, by name.
SectionNames(h) == [i \in 1..Len(h) |-> h[i][1]]

\* The section calls of read(), in the order it makes them.
ReadOrder ==
    <<"magic", "version", "constant_pool", "access_flags", "this_class",
      "super_class", "interfaces", "fields", "methods">>

\* The attributes_count a class file declares at offset `pos` (0 if the
\* file ends before it).
DeclaredCount(buf, pos) ==
    IF pos + 2 <= Len(buf) THEN u16_from_be_bytes(SubSeq(buf, pos + 1, pos + 2)) ELSE 0

\* C1: a successful read_class has run the sections in the order magic,
\* version, constant pool, access flags, this_class, super_class,
\* interfaces, fields, methods, class-level attributes, each exactly once,
\* and the ClassFile it returns holds the class-level attributes that
\* follow the methods section.
C1_SectionsInOrder ==
    result[1] = "Ok" =>
        /\ SectionNames(ran) = ReadOrder \o <<"attributes">>
        /\ Len(result[2].attributes) = DeclaredCount(byte_reader.buf, ran[9][2])

\* C2: once a section of read_class has failed, no later section runs and
\* no further byte is read: the section that failed is the last one
\* entered, the reader is as that section left it, read_class has returned
\* Err(ContextualError) wrapping that section's error (nothing at all if
\* the section aborted the process) and never a ClassFile; and no step is
\* ever taken after a section has failed or after read_class has returned.
C2_ErrorsAreFatal ==
    /\ [](~out.ok =>
            /\ pc = "done"
            /\ ran[Len(ran)][1] = out.op
            /\ SectionNames(ran) = SubSeq(ReadOrder, 1, Len(ran))
            /\ ran[Len(ran)][2] = byte_reader.pos
            /\ Len(byte_reader.log) = out.at
            /\ result[1] # "Ok"
            /\ IF IsPanic(out.err) THEN result[1] = "Panic"
               ELSE /\ result[1] = "Err"
                    /\ result[2].err = out.err
                    /\ result[2].snippet = snippet(byte_reader))
    /\ [][out.ok /\ result = None]_vars

\* A parse that failed in its third section or later with input left unread.
C2_Witness ==
    /\ reader_advances
    /\ ~out.ok
    /\ result[1] = "Err"
    /\ Len(ran) >= 3
    /\ byte_reader.pos + 2 <= Len(byte_reader.buf)

\* The size in bytes of the constant pool entry at offset `off` of a class
\* file, tag included (JVMS 4.4).
EntrySize(buf, off) ==
    LET tag == buf[off + 1]
    IN CASE tag = 1 -> 3 + u16_from_be_bytes(SubSeq(buf, off + 2, off + 3))
         [] tag \in {3, 4, 9, 10, 11, 12, 17, 18} -> 5
         [] tag \in {5, 6} -> 9
         [] tag = 15 -> 4
         [] OTHER -> 3

\* The offset at which the entries that fill `slots` constant pool indices
\* end, a Long (5) or Double (6) entry filling two.
RECURSIVE PoolEnd(_, _, _)
PoolEnd(buf, off, slots) ==
    IF slots <= 0 \/ off >= Len(buf) THEN off
    ELSE PoolEnd(buf, off + EntrySize(buf, off),
                 slots - (IF buf[off + 1] \in {5, 6} THEN 2 ELSE 1))

\* The number of Long and Double entries of a pool.
WideEntries(cs) == Cardinality({i \in 1..Len(cs) : IsWide(cs[i])})

\* C7: read_constant_pool with declared constant_pool_count = n >= 1 fills
\* exactly the indices 1..n-1, a Long or Double entry filling two: on
\* success the pool holds n-1 slots, the tagged entries read number n-1
\* minus the Long/Double entries, and the cursor stands at the first byte
\* of access_flags.
C7_PoolCountFillsSlots ==
    (/\ reader_advances
     /\ out.op = "constant_pool"
     /\ out.ok
     /\ DeclaredCount(byte_reader.buf, 8) >= 1) =>
        LET n == DeclaredCount(byte_reader.buf, 8)
        IN /\ Len(class_file.constant_pool) = n - 1
           /\ out.val = n - 1 - WideEntries(class_file.constant_pool)
           /\ byte_reader.pos = PoolEnd(byte_reader.buf, 10, n - 1)

\* C8: a class file whose first four bytes are not 0xCAFEBABE is rejected
\* with InvalidMagicNumber(actual), actual being those four bytes as a
\* big-endian u32, after one read of four bytes at offset 0; the version
\* and the later sections are never read.
C8_BadMagicRejected ==
    (/\ Len(ran) >= 1
     /\ Len(byte_reader.buf) >= 4
     /\ SubSeq(byte_reader.buf, 1, 4) # <<202, 254, 186, 190>>) =>
        LET b == byte_reader.buf
        IN /\ result[1] = "Err"
           /\ result[2].err = InvalidMagicNumber(<<b[1] * 256 + b[2], b[3] * 256 + b[4]>>)
           /\ SectionNames(ran) = <<"magic">>
           /\ byte_reader.log = <<<<0, 4>>>>
           /\ class_file = ClassFile_default
           /\ pc = "done"

\* The file whose magic is 0xDEADBEEF, rejected.
C8_Witness ==
    /\ Len(byte_reader.buf) > 4
    /\ SubSeq(byte_reader.buf, 1, 4) = <<222, 173, 190, 239>>
    /\ result[1] = "Err"
    /\ result[2].err = InvalidMagicNumber(<<57005, 48879>>)
    /\ pc = "done"

---------------------------------------------------------------------------
(* Properties of read_constant_pool and of the pool lookups.               *)

\* The tags the match of read_constant_pool has an arm for.
SupportedTags == {1, 3, 4, 5, 6, 7, 8, 9, 10, 11, 12, 15, 16, 17, 18, 19, 20}

\* The entry at offset `off` is whole and decodes: its bytes are all in
\* the file and, for a Utf8, they are modified UTF-8.
EntryReads(buf, off) ==
    /\ off + 3 <= Len(buf)
    /\ off + EntrySize(buf, off) <= Len(buf)
    /\ buf[off + 1] = 1 =>
          from_java_cesu8(SubSeq(buf, off + 4, off + EntrySize(buf, off))).ok

\* The first tag byte without an arm among the `left` entries laid out
\* from offset `off` on, `before` entries having been passed: found, with
\* the tag, its offset and the entries before it, or not found (the
\* entries end, or the file does, or an entry does not decode first).
RECURSIVE FirstBadTag(_, _, _, _)
FirstBadTag(buf, off, left, before) ==
    IF left <= 0 \/ off >= Len(buf)
    THEN [found |-> FALSE, tag |-> 0, off |-> off, before |-> before]
    ELSE IF buf[off + 1] \notin SupportedTags
    THEN [found |-> TRUE, tag |-> buf[off + 1], off |-> off, before |-> before]
    ELSE IF ~EntryReads(buf, off)
    THEN [found |-> FALSE, tag |-> 0, off |-> off, before |-> before]
    ELSE FirstBadTag(buf, off + EntrySize(buf, off), left - 1, before + 1)

\* The constants of a pool that are not sentinels.
Entries(cs) == Cardinality({i \in 1..Len(cs) : cs[i] # Unsuable})

\* C11: while the constant pool is read, a tag byte outside {1, 3..12, 15..20}
\* makes the parse fail with TagNotSupported(tag): the entries before it
\* are in the pool, none is added for that tag, the tag byte is the last
\* byte read, and read_class returns that error; and TagNotSupported is
\* returned for no other reason.
C11_TagNotSupported ==
    (reader_advances /\ out.op = "constant_pool") =>
        LET bad == FirstBadTag(byte_reader.buf, 10,
                               DeclaredCount(byte_reader.buf, 8) - 1, 0)
        IN /\ bad.found =>
                /\ ~out.ok
                /\ out.err = TagNotSupported(bad.tag)
                /\ Entries(class_file.constant_pool) = bad.before
                /\ byte_reader.log[Len(byte_reader.log)] = <<bad.off, 1>>
                /\ byte_reader.pos = bad.off + 1
                /\ result[1] = "Err"
                /\ result[2].err = TagNotSupported(bad.tag)
                /\ pc = "done"
           /\ (~out.ok /\ out.err[1] = "TagNotSupported") =>
                (bad.found /\ out.err[2] \notin SupportedTags)

\* The tag 21 met after two entries.
C11_Witness ==
    /\ reader_advances
    /\ out.op = "constant_pool"
    /\ out.err = TagNotSupported(21)
    /\ Len(class_file.constant_pool) = 2
    /\ pc = "done"

\* The 22 bytes of scenario 1: magic, minor 0, major 52, constant_pool_count
\* 1, then access flags, this_class, super_class, interfaces_count,
\* fields_count and methods_count, all 0.
Scenario1 ==
    <<202, 254, 186, 190, 0, 0, 0, 52, 0, 1, 0, 0, 0, 0, 0, 0, 0, 0, 0, 0, 0, 0>>

\* C12: the input of scenario 1 parses: read_class returns a ClassFile of
\* Java SE 8 with an empty pool, no flags, super_class None and no
\* interfaces, fields, methods or attributes, every section from the magic
\* to the methods having run and all 22 bytes having been read.
C12_Scenario1Parses ==
    (reader_advances /\ byte_reader.buf = Scenario1 /\ pc = "done") =>
        /\ result = <<"Ok", [ClassFile_default EXCEPT !.version = <<"JavaSE_8", 0>>]>>
        /\ SubSeq(SectionNames(ran), 1, 9) = ReadOrder
        /\ byte_reader.pos = 22

\* get(index) finds an entry in the pool / finds a Utf8 entry.
Resolves(cs, index) == get(cs, index).ok
ResolvesToUtf8(cs, index) == get(cs, index).ok /\ get(cs, index).val[1] = "Utf8"

\* The pool indices a constant stores resolve, and those that name
\* something (the name of a class, of a name-and-type) reach a Utf8.
ReferencesResolve(cs, c) ==
    CASE c[1] = "ClassIndex" -> ResolvesToUtf8(cs, c[2])
      [] c[1] = "NameAndType" -> ResolvesToUtf8(cs, c[2]) /\ Resolves(cs, c[3])
      [] c[1] \in {"FieldRef", "MethodRef", "InterfaceMethodRef"} ->
            Resolves(cs, c[2]) /\ Resolves(cs, c[3])
      [] c[1] \in {"StringIndex", "MethodType", "Module", "Package"} ->
            Resolves(cs, c[2])
      [] c[1] \in {"MethodHandle", "Dynamic", "InvokeDynamic"} -> Resolves(cs, c[3])
      [] OTHER -> TRUE

\* C13: in the constant pool of every ClassFile read_class returns, each
\* index stored in an entry resolves through get, every ClassIndex refers
\* to a Utf8 entry and so does every NameAndType name_index: an input with
\* a dangling or wrongly-typed pool reference is not accepted.
C13_PoolReferencesResolve ==
    result[1] = "Ok" =>
        \A i \in 1..Len(result[2].constant_pool) :
            ReferencesResolve(result[2].constant_pool, result[2].constant_pool[i])

---------------------------------------------------------------------------
(* get_class_name / get_utf8 on their own: a pool is built by add calls on *)
(* the reader's class file, and names are looked up in it.                 *)

MaxNameAdds == 3    \* add calls made on the pool names are looked up in

NameConstants ==
    {<<"Utf8", <<65>>>>, <<"Utf8", <<88>>>>, <<"ClassIndex", 0>>, <<"ClassIndex", 1>>,
     <<"ClassIndex", 2>>, <<"ClassIndex", 5>>, <<"Long", <<0, 0, 0, 5>>>>,
     <<"Integer", 7>>}

InitNames ==
    /\ byte_reader = ByteReader_new(<<>>)
    /\ reader_advances = TRUE
    /\ frame = Frame_new(0, 0)
    /\ overflow_checks = FALSE
    /\ constants = <<>>
    /\ class_file = ClassFile_default
    /\ pc = "names"
    /\ ran = <<>>
    /\ result = None
    /\ out = NoCall
    /\ calls = 0

Call_pool_add == \E c \in NameConstants :
    /\ pc = "names"
    /\ calls < MaxNameAdds
    /\ class_file' = [class_file EXCEPT !.constant_pool = add(@, c)]
    /\ calls' = calls + 1
    /\ out' = [NoCall EXCEPT !.op = "add", !.val = c]
    /\ UNCHANGED <<frame, overflow_checks,
                   byte_reader, reader_advances, constants, pc, ran, result>>

\* A lookup `look` made with index k: the reader is left as the lookup
\* left it.
NameCall(name, k, h) ==
    /\ pc = "names"
    /\ byte_reader' = h.st.r
    /\ class_file' = h.st.cf
    /\ out' = [NoCall EXCEPT !.op = name, !.at = k, !.ok = h.ok, !.val = h.val,
                             !.err = h.err]
    /\ UNCHANGED <<frame, overflow_checks,
                   reader_advances, constants, pc, ran, result, calls>>

Call_get_class_name == \E k \in 0..(Len(class_file.constant_pool) + 1) :
    NameCall("get_class_name", k, get_class_name(Self, k))

Call_get_utf8 == \E k \in 0..(Len(class_file.constant_pool) + 1) :
    NameCall("get_utf8", k, get_utf8(Self, k))

NextNames == Call_pool_add \/ Call_get_class_name \/ Call_get_utf8

SpecNames == InitNames /\ [][NextNames]_vars

\* The error of a lookup of `index` that finds no entry or a sentinel.
IsPoolError(e, index) ==
    e \in {ConstantPoolError(IndexOutOfBounds(index)),
           ConstantPoolError(UnsuableConstant(index))}

\* C14: get_class_name(index) returns a name only when the entry at index
\* is a ClassIndex whose inner index resolves to a Utf8 entry, and the name
\* is that Utf8 string; an entry of another kind gives UnexpectedConstant
\* with the expected and the actual kind, an absent index or a sentinel
\* IndexOutOfBounds or UnusableConstant of that index.  The pool and the
\* reader are left as they were.
C14_GetClassName ==
    out.op = "get_class_name" =>
        LET cs == class_file.constant_pool
            outer == get(cs, out.at)
            inner == get(cs, outer.val[2])
        IN /\ IF ~outer.ok THEN ~out.ok /\ IsPoolError(out.err, out.at)
              ELSE IF outer.val[1] # "ClassIndex"
              THEN ~out.ok /\ out.err = UnexpectedConstant("ClassIndex", outer.val[1])
              ELSE IF ~inner.ok THEN ~out.ok /\ IsPoolError(out.err, outer.val[2])
              ELSE IF inner.val[1] # "Utf8"
              THEN ~out.ok /\ out.err = UnexpectedConstant("Utf8", inner.val[1])
              ELSE out.ok /\ out.val = inner.val[2]
           /\ out.ok => \E i, j \in 1..Len(cs) :
                            cs[i] = <<"ClassIndex", j - 1>> /\ cs[j] = <<"Utf8", out.val>>
           /\ byte_reader = ByteReader_new(<<>>)

\* A class name found through a ClassIndex that is not the first entry.
C14_Witness ==
    /\ out.op = "get_class_name"
    /\ out.ok
    /\ out.at >= 1
    /\ out.val = <<88>>
    /\ Len(class_file.constant_pool) = 3

---------------------------------------------------------------------------
(* Properties of read_code_attr and read_instruction, stated on the state  *)
(* read_methods leaves behind: the reads of the byte reader are in its     *)
(* log, the decoded Code in class_file.methods.                            *)

\* The methods section has just been read without an error.
MethodsRead == out.op = "methods" /\ out.ok /\ reader_advances

\* The last read of four bytes in the log.  When the last attribute that
\* read_methods read is a Code, it is the read of its code_length: the
\* instruction loop reads one or two bytes at a time.
LastU32Read ==
    CHOOSE i \in 0..Len(byte_reader.log) :
        /\ i > 0 => byte_reader.log[i][2] = 4
        /\ \A j \in (i + 1)..Len(byte_reader.log) : byte_reader.log[j][2] # 4

\* The u16 and the u32 that the file holds at offset `off`.
U16At(off) == byte_reader.buf[off + 1] * 256 + byte_reader.buf[off + 2]
U32At(off) == U16At(off) * 65536 + U16At(off + 2)

\* The last attribute read_methods came to is a Code: name index, length, max_stack,
\* max_locals, code_length were read in this order and the name is "Code".
CodeHeaderRead ==
    /\ out.op = "methods" /\ reader_advances
    /\ LastU32Read >= 5
    /\ byte_reader.log[LastU32Read - 3][2] = 4
    /\ byte_reader.log[LastU32Read - 4][2] = 2
    /\ LET name == get_utf8(Self, U16At(byte_reader.log[LastU32Read - 4][1]))
       IN  name.ok /\ name.val = STR_Code

\* ... and the whole attribute was decoded without an error.
LastAttributeIsCode == MethodsRead /\ CodeHeaderRead

\* Of that Code attribute: the declared length and code_length, the offset
\* of the first byte of the code array, the bytes the loop consumed, and
\* the decoded (instruction, offset) pairs.
LastLengthAt == byte_reader.log[LastU32Read - 3][1]
LastLength == U32At(LastLengthAt)
LastCodeLength == U32At(byte_reader.log[LastU32Read][1])
LastCodeStart == byte_reader.log[LastU32Read][1] + 4
LastCodeConsumed == byte_reader.pos - LastCodeStart
LastCode ==
    LET m == class_file.methods[Len(class_file.methods)]
    IN  m.attributes[Len(m.attributes)]

\* The encoded length of an instruction as JVMS gives it: the opcode and
\* the operands of its arm.
OperandBytes(kind) ==
    CASE kind = "none" -> 0
      [] kind = "u8" -> 1
      [] kind \in {"u16", "i16", "reader_u16", "u8+i8"} -> 2
      [] kind = "u16+u8" -> 3
      [] OTHER -> 0
EncodedLength(instruction) ==
    1 + OperandBytes((CHOOSE a \in Opcodes : a[2] = instruction[1])[3])
RECURSIVE SumEncodedLengths(_)
SumEncodedLengths(code) ==
    IF Len(code) = 0 THEN 0
    ELSE EncodedLength(code[1][1]) + SumEncodedLengths(Tail(code))

\* C15: for every successfully decoded Code attribute the instruction loop
\* consumes exactly code_length bytes: the encoded lengths of the decoded
\* instructions add up to the declared code_length, the cursor advanced by
\* code_length over the code array, and no opcode or operand byte was read
\* from beyond the end of the array.
C15_LoopConsumesCodeLength ==
    LastAttributeIsCode =>
        /\ SumEncodedLengths(LastCode.code) = LastCodeLength
        /\ LastCodeConsumed = LastCodeLength
        /\ \A j \in (LastU32Read + 1)..Len(byte_reader.log) :
              byte_reader.log[j][1] + byte_reader.log[j][2]
                  <= LastCodeStart + LastCodeLength

\* The true byte offset of the k-th decoded instruction in the code array:
\* the encoded lengths of the instructions before it.
TrueOffset(code, k) == SumEncodedLengths(SubSeq(code, 1, k - 1))

\* C16: the PC counter is advanced once for every byte the decoder
\* consumes, for every opcode kind (branch opcodes with their two offset
\* bytes and multianewarray with its dimensions byte included): the offset
\* recorded with each decoded instruction is its true byte offset in the
\* code array.
C16_OffsetsAreByteOffsets ==
    LastAttributeIsCode =>
        \A k \in 1..Len(LastCode.code) :
            LastCode.code[k][2] = TrueOffset(LastCode.code, k)

\* The operand bytes of an arm that read_instruction counts in `address`:
\* those read through read_instruction_u8/u16/i8/i16.
CountedBytes(kind) == IF kind = "reader_u16" THEN 0 ELSE OperandBytes(kind)
\* The value of the counter after the instruction was decoded, the counter
\* being `before` when its opcode was read.
CounterAfter(before, instruction) ==
    before + 1 + CountedBytes((CHOOSE a \in Opcodes : a[2] = instruction[1])[3])

UnassignedOpcodes == 203..253

\* C18: the opcode dispatch is exhaustive with a typed error: when the
\* opcode byte b at the start of a code array is not an assigned JVM
\* opcode, read_instruction returns the error UnknownOpcode(b) as a value
\* and read_class returns it wrapped in a ContextualError; the process is
\* not aborted.
C18_UnknownOpcodeIsAnError ==
    (/\ CodeHeaderRead
     /\ LastCodeLength >= 1
     /\ Len(byte_reader.buf) > LastCodeStart
     /\ byte_reader.buf[LastCodeStart + 1] \in UnassignedOpcodes)
    => /\ ~out.ok
       /\ out.err = <<"UnknownOpcode", byte_reader.buf[LastCodeStart + 1]>>
       /\ result = <<"Err", ContextualError_new(out.err, snippet(byte_reader))>>

\* What the file holds after the code array of the last Code attribute, as
\* JVMS lays it out: exception_table_length, the handlers of four u16
\* each, attributes_count.
ExceptionTableAt == LastCodeStart + LastCodeLength
ExceptionTableLength == U16At(ExceptionTableAt)
HandlerAt(k) == ExceptionTableAt + 2 + 8 * (k - 1)
FileHandlers ==
    [k \in 1..ExceptionTableLength |->
        <<U16At(HandlerAt(k)), U16At(HandlerAt(k) + 2),
          U16At(HandlerAt(k) + 4), U16At(HandlerAt(k) + 6)>>]
NestedCountAt == HandlerAt(ExceptionTableLength + 1)
NestedCount == U16At(NestedCountAt)
\* The first byte after the attribute.
LastAttributeEnd == LastLengthAt + 4 + LastLength

\* The declared length of the attribute has room for the code array, the
\* exception table and attributes_count, and the file holds them.
CodeIsLaidOut ==
    /\ LastAttributeIsCode
    /\ LastAttributeEnd <= Len(byte_reader.buf)
    /\ ExceptionTableAt + 2 <= LastAttributeEnd
    /\ NestedCountAt + 2 <= LastAttributeEnd

\* C19: decoding a Code attribute reads, after the code array, the
\* exception table (a u16 count and that many handlers of four u16) and
\* the nested attributes (a u16 count and that many attributes): the Code
\* returned carries the handlers of the file in file order and as many
\* nested attributes as the file declares, and the cursor stands at the
\* first byte after the attribute.
C19_ExceptionTableAndAttributesRead ==
    CodeIsLaidOut =>
        /\ LastCode.exception_table = FileHandlers
        /\ Len(LastCode.attributes) = NestedCount
        /\ byte_reader.pos = LastAttributeEnd

\* The fields section has just been read without an error and the last
\* attribute it read is a ConstantValue: its name index and its length are
\* the two reads before the last one (constantvalue_index).
LastAttributeIsConstantValue ==
    /\ out.op = "fields" /\ out.ok /\ reader_advances
    /\ LastU32Read >= 2
    /\ LastU32Read = Len(byte_reader.log) - 1
    /\ byte_reader.log[LastU32Read - 1][2] = 2
    /\ LET name == get_utf8(Self, U16At(byte_reader.log[LastU32Read - 1][1]))
       IN  name.ok /\ name.val = STR_ConstantValue

\* C20: whenever a predefined attribute is decoded successfully, the
\* number of bytes consumed after its u32 length field equals the declared
\* length (checked for the attributes read_class decodes: ConstantValue of
\* a field and Code of a method), so that what follows the attribute is
\* read from exactly `length` bytes after the length field.
C20_AttributeLengthConsumed ==
    /\ LastAttributeIsConstantValue =>
          byte_reader.pos - (byte_reader.log[LastU32Read][1] + 4)
              = U32At(byte_reader.log[LastU32Read][1])
    /\ LastAttributeIsCode =>
          byte_reader.pos - (LastLengthAt + 4) = LastLength

---------------------------------------------------------------------------
(* StackMapTable frames: read_stack_map_frame and the verification types   *)
(* it reads, called on a reader that stands at a frame.                    *)

InvalidStackMapFrameType(frame_type) == <<"InvalidStackMapFrameType", frame_type>>
InvalidVerificationType(tag) == <<"InvalidVerificationType", tag>>

\* The variants of VerificationTypeInfo without a payload, by tag.
PlainVerificationTypes ==
    <<"Top", "Integer", "Float", "Double", "Long", "Null", "UninitializedThis">>

\* ClassFileReader::read_verification_type
read_verification_type(st) ==
    Try(st_read_u8(st), LAMBDA tag :
    IF tag.val <= 6 THEN Done(<<PlainVerificationTypes[tag.val + 1]>>, tag.st)
    ELSE IF tag.val = 7
    THEN Try(st_read_u16(tag.st), LAMBDA cpool_index :
         Try(pool_get(cpool_index.st, cpool_index.val), LAMBDA constant :
         Done(<<"Object", constant.val>>, constant.st)))
    ELSE IF tag.val = 8
    THEN Try(st_read_u16(tag.st), LAMBDA offset :
         Done(<<"Uninitialized", offset.val>>, offset.st))
    ELSE Fail(InvalidVerificationType(tag.val), tag.st))

\* ClassFileReader::read_verification_types: `left` types to go.
RECURSIVE VerificationTypesLoop(_, _, _)
VerificationTypesLoop(st, left, types) ==
    IF left = 0 THEN Done(types, st)
    ELSE Try(read_verification_type(st), LAMBDA verification_type :
         VerificationTypesLoop(verification_type.st, left - 1,
                               Append(types, verification_type.val)))
\* A loop that would stop after the first type.
read_verification_types_first(st, count) ==
    VerificationTypesLoop(st, Min(count, 1), <<>>)
read_verification_types(st, count) == VerificationTypesLoop(st, count, <<>>)

\* ClassFileReader::read_stack_map_frame
read_stack_map_frame(st) ==
    Try(st_read_u8(st), LAMBDA frame_type :
    IF frame_type.val <= 63
    THEN Done([kind |-> "SameFrame", frame_type |-> frame_type.val], frame_type.st)
    ELSE IF frame_type.val <= 127
    THEN Try(read_verification_type(frame_type.st), LAMBDA stack :
         Done([kind |-> "SameLocals1StackItemFrame", frame_type |-> frame_type.val,
               stack |-> stack.val], stack.st))
    ELSE IF frame_type.val = 247
    THEN Try(st_read_u16(frame_type.st), LAMBDA offset_delta :
         Try(read_verification_type(offset_delta.st), LAMBDA stack :
         Done([kind |-> "SameLocals1StackItemFrameExtended",
               frame_type |-> frame_type.val, offset_delta |-> offset_delta.val,
               stack |-> stack.val], stack.st)))
    ELSE IF frame_type.val \in 248..250
    THEN Try(st_read_u16(frame_type.st), LAMBDA offset_delta :
         Done([kind |-> "ChopFrame", frame_type |-> frame_type.val,
               offset_delta |-> offset_delta.val], offset_delta.st))
    ELSE IF frame_type.val = 251
    THEN Try(st_read_u16(frame_type.st), LAMBDA offset_delta :
         Done([kind |-> "SameFrameExtended", frame_type |-> frame_type.val,
               offset_delta |-> offset_delta.val], offset_delta.st))
    ELSE IF frame_type.val \in 252..254
    THEN Try(st_read_u16(frame_type.st), LAMBDA offset_delta :
         Try(read_verification_types(offset_delta.st, frame_type.val - 251),
             LAMBDA locals :
         Done([kind |-> "AppendFrame", frame_type |-> frame_type.val,
               offset_delta |-> offset_delta.val, locals |-> locals.val],
              locals.st)))
    ELSE IF frame_type.val = 255
    THEN Try(st_read_u16(frame_type.st), LAMBDA offset_delta :
         Try(st_read_u16(offset_delta.st), LAMBDA locals_count :
         Try(read_verification_types(locals_count.st, locals_count.val),
             LAMBDA locals :
         Try(st_read_u16(locals.st), LAMBDA stack_count :
         Try(read_verification_types(stack_count.st, stack_count.val),
             LAMBDA stack :
         Done([kind |-> "FullFrame", frame_type |-> frame_type.val,
               offset_delta |-> offset_delta.val, locals |-> locals.val,
               stack |-> stack.val], stack.st))))))
    ELSE Fail(InvalidStackMapFrameType(frame_type.val), frame_type.st))

\* The payloads that follow the frame_type byte in the buffers below: none,
\* an offset_delta, verification types (Integer; Object with the pool
\* indices 1 and 9; Uninitialized; the tag 9 that is no type), the payload
\* of the frame of the specification (offset_delta 28, Object 13 shortened
\* to the pool of the model: Object 1), three types after an offset_delta,
\* and two full frames.
FramePayloads ==
    {<<>>, <<0, 28>>, <<1>>, <<7, 0, 1>>, <<7, 0, 9>>, <<8, 0, 5>>, <<9>>,
     <<0, 28, 7, 0, 1>>, <<0, 28, 1>>, <<0, 28, 1, 2>>, <<0, 28, 1, 8, 0, 5, 3>>,
     <<0, 28, 9>>, <<0, 2, 0, 1, 1, 0, 1, 2>>, <<0, 2, 0, 0, 0, 0>>,
     <<0, 2, 0, 2, 7, 0, 1, 4, 0, 1, 6>>}
MaxFrames == 2    \* calls of read_stack_map_frame in a run
FrameTypes == 0..255
\* The pool the frames are read against.
FramePool == <<<<"Utf8", <<65>>>>, <<"ClassIndex", 0>>>>

InitFrames ==
    /\ byte_reader \in {ByteReader_new(<<t>> \o p) : t \in FrameTypes, p \in FramePayloads}
    /\ reader_advances \in BOOLEAN
    /\ frame = Frame_new(0, 0)
    /\ overflow_checks = FALSE
    /\ constants = <<>>
    /\ class_file = [ClassFile_default EXCEPT !.constant_pool = FramePool]
    /\ pc = "frames"
    /\ ran = <<>>
    /\ result = None
    /\ out = NoCall
    /\ calls = 0

\* One call of read_stack_map_frame; `ran` keeps the offset it started at.
Call_read_stack_map_frame ==
    /\ pc = "frames"
    /\ calls < MaxFrames
    /\ LET h == read_stack_map_frame(Self)
       IN  /\ byte_reader' = h.st.r
           /\ class_file' = h.st.cf
           /\ ran' = Append(ran, <<"frame", byte_reader.pos>>)
           /\ out' = [NoCall EXCEPT !.op = "frame", !.ok = h.ok, !.err = h.err,
                                    !.val = h.val, !.at = Len(h.st.r.log)]
    /\ calls' = calls + 1
    /\ UNCHANGED <<frame, overflow_checks, reader_advances, constants, pc, result>>

NextFrames == Call_read_stack_map_frame

SpecFrames == InitFrames /\ [][NextFrames]_vars

\* The frame the last call of read_stack_map_frame stood at.
FrameRead == out.op = "frame" /\ reader_advances
FrameStart == ran[Len(ran)][2]
FrameHasType == FrameRead /\ FrameStart < Len(byte_reader.buf)
FrameType == byte_reader.buf[FrameStart + 1]
FrameConsumed == byte_reader.pos - FrameStart

\* The table of the specification: the frame kind of a frame_type byte.
FrameKind(t) ==
    CASE t \in 0..63 -> "SameFrame"
      [] t \in 64..127 -> "SameLocals1StackItemFrame"
      [] t \in 128..246 -> "reserved"
      [] t = 247 -> "SameLocals1StackItemFrameExtended"
      [] t \in 248..250 -> "ChopFrame"
      [] t = 251 -> "SameFrameExtended"
      [] t \in 252..254 -> "AppendFrame"
      [] t = 255 -> "FullFrame"

\* The encoded size of a verification type: a tag, and a u16 after the
\* tags 7 (Object) and 8 (Uninitialized).
TypeSize(t) == IF t[1] \in {"Object", "Uninitialized"} THEN 3 ELSE 1
RECURSIVE SumTypeSizes(_)
SumTypeSizes(types) ==
    IF Len(types) = 0 THEN 0 ELSE TypeSize(types[1]) + SumTypeSizes(Tail(types))

\* The bytes of the payload that the table lists for the decoded frame f,
\* and what the table says about its fields.
FramePayloadIs(f) ==
    CASE f.kind = "SameFrame" -> FrameConsumed = 1
      [] f.kind = "SameLocals1StackItemFrame" ->
            FrameConsumed = 1 + TypeSize(f.stack)
      [] f.kind = "SameLocals1StackItemFrameExtended" ->
            /\ f.offset_delta = U16At(FrameStart + 1)
            /\ FrameConsumed = 3 + TypeSize(f.stack)
      [] f.kind \in {"ChopFrame", "SameFrameExtended"} ->
            /\ f.offset_delta = U16At(FrameStart + 1)
            /\ FrameConsumed = 3
      [] f.kind = "AppendFrame" ->
            /\ f.offset_delta = U16At(FrameStart + 1)
            /\ Len(f.locals) = FrameType - 251
            /\ FrameConsumed = 3 + SumTypeSizes(f.locals)
      [] f.kind = "FullFrame" ->
            /\ f.offset_delta = U16At(FrameStart + 1)
            /\ Len(f.locals) = U16At(FrameStart + 3)
            /\ Len(f.stack) = U16At(FrameStart + 5 + SumTypeSizes(f.locals))
            /\ FrameConsumed = 7 + SumTypeSizes(f.locals) + SumTypeSizes(f.stack)

\* C21: read_stack_map_frame maps every frame_type byte 0..255 to the one
\* outcome the table gives it and consumes exactly the payload listed:
\* 128..246 fail with InvalidStackMapFrameType after the frame_type byte
\* alone, every frame returned has the kind of its frame_type, the fields
\* the file holds and the number of verification types listed, and no
\* other frame_type fails with InvalidStackMapFrameType.
C21_FrameTypeTable ==
    FrameHasType =>
        /\ FrameKind(FrameType) = "reserved" =>
              /\ ~out.ok
              /\ out.err = InvalidStackMapFrameType(FrameType)
              /\ FrameConsumed = 1
        /\ out.ok =>
              /\ out.val.kind = FrameKind(FrameType)
              /\ out.val.frame_type = FrameType
              /\ FramePayloadIs(out.val)
        /\ (~out.ok /\ FrameKind(FrameType) # "reserved") =>
              out.err[1] # "InvalidStackMapFrameType"

\* The frame of the specification has been decoded: frame_type 252,
\* offset_delta 28, one Object local taken from the pool.
C21_Witness ==
    /\ FrameHasType /\ out.ok
    /\ FrameType = 252
    /\ out.val = [kind |-> "AppendFrame", frame_type |-> 252, offset_delta |-> 28,
                  locals |-> <<<<"Object", <<"ClassIndex", 0>>>>>>]
    /\ FrameConsumed = 6

---------------------------------------------------------------------------
(* read_constant_value_attr on its own: the reader stands at the length of *)
(* a ConstantValue attribute of a field of type `ran[1][2]`.               *)

\* The pool the index refers to, as add builds it (get is 0-based): an
\* Integer, a Float, a Long and a Double with their sentinels, two Utf8, a
\* ClassIndex and a StringIndex.
ValuePool ==
    <<<<"Integer", 7>>, <<"Float", <<"f32", 0, 0>>>>, <<"Long", <<0, 0, 0, 5>>>>,
      Unsuable, <<"Double", <<"f64", 0, 0, 0, 0>>>>, Unsuable, <<"Utf8", <<65>>>>,
      <<"ClassIndex", 6>>, <<"StringIndex", 6>>>>

\* The field types: every base type, String, another class, arrays.
ValueFieldTypes ==
    {<<"Base", b[2]>> : b \in BaseTypes}
        \cup {<<"Object", STR_java_lang_String>>, <<"Object", <<65>>>>,
              <<"Array", <<"Base", "Int">>>>,
              <<"Array", <<"Object", STR_java_lang_String>>>>}

\* The attribute bodies: a u32 length and a u16 index, and what is left of
\* them when the input ends early.
ValueLengths == {U32(0), U32(1), U32(2), U32(3), <<0, 1, 0, 2>>, <<2, 0, 0, 0>>}
ValueBodies ==
    UNION {Prefixes(l \o U16(i), 6) : l \in ValueLengths, i \in 0..Len(ValuePool)}

InitConstantValue ==
    /\ byte_reader \in {ByteReader_new(d) : d \in ValueBodies}
    /\ reader_advances \in BOOLEAN
    /\ frame = Frame_new(0, 0)
    /\ overflow_checks = FALSE
    /\ constants = <<>>
    /\ class_file = [ClassFile_default EXCEPT !.constant_pool = ValuePool]
    /\ pc = "constant_value"
    /\ ran \in {<<<<"field_type", t>>>> : t \in ValueFieldTypes}
    /\ result = None
    /\ out = NoCall
    /\ calls = 0

\* The call read_field makes for an attribute named "ConstantValue".
Call_read_constant_value_attr ==
    /\ pc = "constant_value"
    /\ calls = 0
    /\ LET h == read_constant_value_attr(Self, ran[1][2])
       IN  /\ byte_reader' = h.st.r
           /\ class_file' = h.st.cf
           /\ out' = [NoCall EXCEPT !.op = "constant_value", !.ok = h.ok,
                                    !.err = h.err, !.val = h.val,
                                    !.at = Len(h.st.r.log)]
    /\ calls' = calls + 1
    /\ UNCHANGED <<frame, overflow_checks, reader_advances, constants, pc, ran, result>>

NextConstantValue == Call_read_constant_value_attr

SpecConstantValue == InitConstantValue /\ [][NextConstantValue]_vars

\* The constant kind a field type takes, by the table of the
\* specification; "none" for a type that takes no ConstantValue.
ValueKindOf(t) ==
    CASE t[1] = "Base" /\ t[2] \in {"Int", "Short", "Char", "Byte", "Boolean"} -> "Integer"
      [] t = <<"Base", "Float">> -> "Float"
      [] t = <<"Base", "Long">> -> "Long"
      [] t = <<"Base", "Double">> -> "Double"
      [] t = <<"Object", STR_java_lang_String>> -> "Utf8"
      [] OTHER -> "none"

\* After the call: the declared length, and the index the call read (the
\* second read of its history) with the pool entry it names.
ValueCalled == out.op = "constant_value"
ValueLength == U32At(0)
ValueIndexRead == Len(byte_reader.log) = 2
ValueIndex == U16At(byte_reader.log[2][1])
ValueEntry == class_file.constant_pool[ValueIndex + 1]
ValueEntryUsable ==
    /\ ValueIndexRead
    /\ ValueIndex < Len(class_file.constant_pool)
    /\ ValueEntry # Unsuable

\* C22: a ConstantValue attribute is accepted only if its declared length
\* is 2 (any other length fails with InvalidAttributeSize once the length
\* is read and before the index is) and the kind of the pool entry matches
\* the field type by the table; every other pair (field type, constant
\* kind), any Array and any Object other than java/lang/String included,
\* fails with MismatchedConstantType.
C22_ConstantValueAccepted ==
    (ValueCalled /\ Len(byte_reader.buf) >= 4) =>
        /\ ValueLength # 2 =>
              /\ ~out.ok
              /\ out.err = InvalidAttributeSize(<<ValueLength \div 65536,
                                                  ValueLength % 65536>>, <<0, 2>>)
              /\ Len(byte_reader.log) = 1
        /\ out.ok =>
              /\ ValueLength = 2
              /\ ValueEntryUsable
              /\ ValueEntry[1] = ValueKindOf(ran[1][2])
              /\ out.val = <<"ConstantValue", ValueEntry>>
        /\ (ValueLength = 2 /\ ValueEntryUsable) =>
              IF ValueEntry[1] = ValueKindOf(ran[1][2])
              THEN out.ok
              ELSE ~out.ok /\ out.err = MismatchedConstantType(ran[1][2], ValueIndex)

\* A String field has taken a Utf8 constant, with the advancing reader.
C22_Witness ==
    /\ ValueCalled /\ out.ok /\ reader_advances
    /\ ran[1][2] = <<"Object", STR_java_lang_String>>
    /\ ValueIndex = 6
    /\ out.val = <<"ConstantValue", <<"Utf8", <<65>>>>>>

---------------------------------------------------------------------------
(* read_user_defined_attr on its own: the reader stands at the length of   *)
(* an attribute whose name `ran[1][2]` no reader of read_field or          *)
(* read_method is dispatched for.                                          *)

\* Attribute bodies: the bytes after the length field.
UserInfos == {<<>>, <<9>>, <<9, 8>>, <<9, 8, 7>>}
UserLengths == {U32(0), U32(1), U32(2), U32(3), <<0, 1, 0, 0>>}
UserBodies ==
    {l \o i : l \in UserLengths, i \in UserInfos}
        \cup Prefixes(U32(2), 3)

InitUserDefined ==
    /\ byte_reader \in {ByteReader_new(d) : d \in UserBodies}
    /\ reader_advances \in BOOLEAN
    /\ frame = Frame_new(0, 0)
    /\ overflow_checks = FALSE
    /\ constants = <<>>
    /\ class_file = ClassFile_default
    /\ pc = "user_defined"
    /\ ran \in {<<<<"name", n>>>> : n \in {STR_X, STR_A, STR_Code}}
    /\ result = None
    /\ out = NoCall
    /\ calls = 0

\* The call read_field and read_method make for any other name.
Call_read_user_defined_attr ==
    /\ pc = "user_defined"
    /\ calls = 0
    /\ LET h == read_user_defined_attr(Self, ran[1][2])
       IN  /\ byte_reader' = h.st.r
           /\ class_file' = h.st.cf
           /\ out' = [NoCall EXCEPT !.op = "user_defined", !.ok = h.ok,
                                    !.err = h.err, !.val = h.val,
                                    !.at = Len(h.st.r.log)]
    /\ calls' = calls + 1
    /\ UNCHANGED <<frame, overflow_checks, reader_advances, constants, pc, ran, result>>

NextUserDefined == Call_read_user_defined_attr

SpecUserDefined == InitUserDefined /\ [][NextUserDefined]_vars

\* After the call, on an input that holds the length field: the declared
\* length and the bytes that follow the field.
UserCalled == out.op = "user_defined" /\ Len(byte_reader.buf) >= 4
UserLength == U32At(0)
UserRemaining == Len(byte_reader.buf) - 4

\* C23: an attribute without a reader of its own is stored as
\* UserDefined{name, raw_bytes}, raw_bytes being exactly the `length` bytes
\* that follow the u32 length field, and the cursor then stands right after
\* those bytes; when fewer than `length` bytes remain the parse fails with
\* UnexpectedEOF.
C23_UserDefinedTakesLengthBytes ==
    UserCalled =>
        IF UserLength <= UserRemaining
        THEN /\ out.ok
             /\ out.val = <<"UserDefined", ran[1][2],
                            SubSeq(byte_reader.buf, 5, 4 + UserLength)>>
             /\ byte_reader.pos = 4 + UserLength
        ELSE /\ ~out.ok
             /\ out.err = ReadError(UnexpectedEOF)

---------------------------------------------------------------------------
(* read_nest_members_attr on its own: the reader stands at the             *)
(* attribute_name_index of a NestMembers attribute.                        *)

STR_NestMembers == <<78, 101, 115, 116, 77, 101, 109, 98, 101, 114, 115>>
InvalidAttributeNameIndex(string, utf8) == <<"InvalidAttributeNameIndex", string, utf8>>

\* ClassFileReader::check_utf8
check_utf8(st, name_index, string) ==
    Try(get_utf8(st, name_index), LAMBDA utf8 :
    IF utf8.val = string THEN Done(<<>>, utf8.st)
    ELSE Fail(InvalidAttributeNameIndex(string, utf8.val), utf8.st))

\* The loop of read_nest_members_attr: `left` iterations to go.
RECURSIVE NestMembersLoop(_, _, _)
NestMembersLoop(st, left, nest_members) ==
    IF left = 0 THEN Done(<<"NestMembers", nest_members>>, st)
    ELSE Try(st_read_u16(st), LAMBDA class_index :
         Try(get_class_name(class_index.st, class_index.val), LAMBDA class_name :
         NestMembersLoop(class_name.st, left - 1,
                         Append(nest_members, class_name.val))))

\* ClassFileReader::read_nest_members_attr.  The result of check_utf8 is
\* dropped (`let _ =`); the loop runs attribute_length times.
read_nest_members_attr(st) ==
    Try(st_read_u16(st), LAMBDA attribute_name_index :
    LET dropped == check_utf8(attribute_name_index.st, attribute_name_index.val,
                              STR_NestMembers)
    IN  Try(st_read_u32(attribute_name_index.st), LAMBDA attribute_length :
        NestMembersLoop(attribute_length.st, AsUsize(attribute_length.val), <<>>)))

\* The pool: "A", the class A, "X", the class X, "NestMembers" (get is
\* 0-based).
NestPool ==
    <<<<"Utf8", STR_A>>, <<"ClassIndex", 0>>, <<"Utf8", STR_X>>, <<"ClassIndex", 2>>,
      <<"Utf8", STR_NestMembers>>>>

\* A NestMembers attribute as JVMS lays it out: name index, length
\* 2 + 2 * n, number_of_classes n, n class indices.
A_NestMembers(classes) ==
    U16(4) \o U32(2 + 2 * Len(classes)) \o U16(Len(classes))
        \o Flatten([k \in 1..Len(classes) |-> U16(classes[k])])
MaxNest == 14    \* bytes of a NestMembers attribute kept when the input is cut
NestClasses == {<<>>, <<1>>, <<3>>, <<1, 3>>, <<3, 1>>, <<1, 1>>, <<1, 0>>, <<9>>}
\* And attributes that hold `length` class indices right after the length.
A_NestLength(classes) ==
    U16(4) \o U32(Len(classes)) \o Flatten([k \in 1..Len(classes) |-> U16(classes[k])])
NestBodies ==
    UNION {Prefixes(A_NestMembers(c), MaxNest) : c \in NestClasses}
        \cup {A_NestMembers(c) \o U16(1) \o U16(3) \o U16(1) : c \in NestClasses}
        \cup {A_NestLength(c) : c \in NestClasses}

InitNestMembers ==
    /\ byte_reader \in {ByteReader_new(d) : d \in NestBodies}
    /\ reader_advances \in BOOLEAN
    /\ frame = Frame_new(0, 0)
    /\ overflow_checks = FALSE
    /\ constants = <<>>
    /\ class_file = [ClassFile_default EXCEPT !.constant_pool = NestPool]
    /\ pc = "nest_members"
    /\ ran = <<>>
    /\ result = None
    /\ out = NoCall
    /\ calls = 0

Call_read_nest_members_attr ==
    /\ pc = "nest_members"
    /\ calls = 0
    /\ LET h == read_nest_members_attr(Self)
       IN  /\ byte_reader' = h.st.r
           /\ class_file' = h.st.cf
           /\ out' = [NoCall EXCEPT !.op = "nest_members", !.ok = h.ok,
                                    !.err = h.err, !.val = h.val,
                                    !.at = Len(h.st.r.log)]
    /\ calls' = calls + 1
    /\ UNCHANGED <<frame, overflow_checks, reader_advances, constants, pc, ran, result>>

NextNestMembers == Call_read_nest_members_attr

SpecNestMembers == InitNestMembers /\ [][NextNestMembers]_vars

\* The attribute of the input, read as JVMS lays it out: the u16 count at
\* offset 6, the class indices after it, and the names they resolve to.
NestCalled == out.op = "nest_members" /\ reader_advances
NestCount == U16At(6)
NestIndex(k) == U16At(6 + 2 * k)
NestLaidOut ==
    /\ NestCalled
    /\ Len(byte_reader.buf) >= 8
    /\ Len(byte_reader.buf) >= 8 + 2 * NestCount
    /\ U32At(2) = 2 + 2 * NestCount
    /\ \A k \in 1..NestCount : get_class_name(Self, NestIndex(k)).ok
NestNames == [k \in 1..NestCount |-> get_class_name(Self, NestIndex(k)).val]

\* C24: a NestMembers attribute is decoded as a u16 count followed by
\* exactly count u16 class indices, each resolved through get_class_name:
\* the names come in file order and there are as many as the u16 count
\* says, not as many as the u32 attribute length.
C24_NestMembersCount ==
    NestLaidOut =>
        /\ out.ok
        /\ out.val = <<"NestMembers", NestNames>>
        /\ byte_reader.pos = 8 + 2 * NestCount

---------------------------------------------------------------------------
(* The three access-flag decoders on their own: each is called with a mask *)
(* and the list it returns is kept in `out`.                               *)

Masks == 0..65535

InitFlags ==
    /\ byte_reader = ByteReader_new(<<>>)
    /\ reader_advances = TRUE
    /\ frame = Frame_new(0, 0)
    /\ overflow_checks = FALSE
    /\ constants = <<>>
    /\ class_file = ClassFile_default
    /\ pc = "flags"
    /\ ran = <<>>
    /\ result = None
    /\ out = NoCall
    /\ calls = 0

\* A call new(mask) of the decoder `name` that returned `flags`.
FlagsCall(name, mask, flags) ==
    /\ pc = "flags"
    /\ out' = [NoCall EXCEPT !.op = name, !.at = mask, !.val = flags]
    /\ calls' = calls + 1
    /\ UNCHANGED <<frame, overflow_checks,
                   byte_reader, reader_advances, constants, class_file, pc, ran, result>>

Call_ClassFileAccessFlags_new ==
    /\ calls = 0
    /\ \E mask \in Masks : FlagsCall("class", mask, ClassFileAccessFlags_new(mask))
Call_FieldAccessFlags_new ==
    /\ calls = 0
    /\ \E mask \in Masks : FlagsCall("field", mask, FieldAccessFlags_new(mask))
Call_MethodAccessFlags_new ==
    /\ calls = 0
    /\ \E mask \in Masks : FlagsCall("method", mask, MethodAccessFlags_new(mask))

NextFlags ==
    \/ Call_ClassFileAccessFlags_new
    \/ Call_FieldAccessFlags_new
    \/ Call_MethodAccessFlags_new

SpecFlags == InitFlags /\ [][NextFlags]_vars

\* The bits of the access flags, as the specification tabulates them for
\* classes, fields and methods.
FlagBits(decoder) ==
    CASE decoder = "class" ->
            {<<"Public", 1>>, <<"Final", 16>>, <<"Super", 32>>, <<"Interface", 512>>,
             <<"Abstract", 1024>>, <<"Synthetic", 4096>>, <<"Annotation", 8192>>,
             <<"Enum", 16384>>, <<"Module", 32768>>}
      [] decoder = "field" ->
            {<<"Public", 1>>, <<"Private", 2>>, <<"Protected", 4>>, <<"Static", 8>>,
             <<"Final", 16>>, <<"Volatile", 64>>, <<"Transient", 128>>,
             <<"Synthetic", 4096>>, <<"Enum", 16384>>}
      [] decoder = "method" ->
            {<<"Public", 1>>, <<"Private", 2>>, <<"Protected", 4>>, <<"Static", 8>>,
             <<"Final", 16>>, <<"Synchronized", 32>>, <<"Bridge", 64>>,
             <<"Varargs", 128>>, <<"Native", 256>>, <<"Abstract", 1024>>,
             <<"Strict", 2048>>, <<"Synthetic", 4096>>}
BitOfFlag(decoder, flag) == (CHOOSE f \in FlagBits(decoder) : f[1] = flag)[2]

\* The bits of mask, least significant first, and what is left of a mask
\* when the bits outside `known` are cleared.
RECURSIVE KnownPart(_, _, _)
KnownPart(mask, bit, known) ==
    IF bit > 32768 THEN 0
    ELSE (IF mask % 2 = 1 /\ bit \in known THEN bit ELSE 0)
            + KnownPart(mask \div 2, bit * 2, known)
RECURSIVE SumBits(_, _)
SumBits(decoder, flags) ==
    IF Len(flags) = 0 THEN 0
    ELSE BitOfFlag(decoder, flags[1]) + SumBits(decoder, Tail(flags))

FlagsDecoded == out.op \in {"class", "field", "method"}

\* C25: for each of the three decoders and every u16 mask m, the list
\* decoded holds only flags of the decoder, holds a flag exactly when its
\* bit is set in m, holds none twice, lists them by ascending bit, and the
\* OR of their bits (their sum, the bits being distinct) is m with the bits
\* the decoder does not know cleared; no mask is an error.
C25_AccessFlagsRoundTrip ==
    FlagsDecoded =>
        LET flags == out.val
            bits == FlagBits(out.op)
        IN  /\ out.ok
            /\ \A i \in 1..Len(flags) : \E f \in bits : f[1] = flags[i]
            /\ \A f \in bits :
                  (\E i \in 1..Len(flags) : flags[i] = f[1])
                      <=> (out.at \div f[2]) % 2 = 1
            /\ \A i, j \in 1..Len(flags) : i < j =>
                  BitOfFlag(out.op, flags[i]) < BitOfFlag(out.op, flags[j])
            /\ SumBits(out.op, flags) = KnownPart(out.at, 1, {f[2] : f \in bits})

\* The class decoder was given every bit: the nine class flags come back.
C25_Witness ==
    /\ out.op = "class" /\ out.at = 65535
    /\ out.val = <<"Public", "Final", "Super", "Interface", "Abstract", "Synthetic",
                   "Annotation", "Enum", "Module">>

---------------------------------------------------------------------------
(* FieldType::try_from and MethodDescriptor::try_from on their own: each   *)
(* is called on the characters of a string; `ran` keeps the string and     *)
(* what the iterator has left, `out` the result.                           *)

MaxDepth == 2    \* nesting of Array in the field types below

\* Field types: the base types and classes, and arrays of them to a depth.
ClassNames == {<<>>, STR_A, <<65, 47, 66>>, STR_java_lang_String}
LeafTypes ==
    {<<"Base", b>> : b \in {"Byte", "Char", "Double", "Float", "Int", "Long",
                            "Short", "Boolean"}}
        \cup {<<"Object", n>> : n \in ClassNames}
RECURSIVE TypesTo(_)
TypesTo(depth) ==
    IF depth = 0 THEN LeafTypes
    ELSE TypesTo(depth - 1) \cup {<<"Array", t>> : t \in TypesTo(depth - 1)}
FieldTypes == TypesTo(MaxDepth)

\* The descriptor of a field type (JVMS 4.3.2): one character for a base
\* type, L name ; for a class, [ and the descriptor of the element.
BaseChar(b) ==
    CASE b = "Byte" -> 66 [] b = "Char" -> 67 [] b = "Double" -> 68
      [] b = "Float" -> 70 [] b = "Int" -> 73 [] b = "Long" -> 74
      [] b = "Short" -> 83 [] b = "Boolean" -> 90
RECURSIVE Encode(_)
Encode(t) ==
    CASE t[1] = "Base" -> <<BaseChar(t[2])>>
      [] t[1] = "Object" -> <<76>> \o t[2] \o <<59>>
      [] t[1] = "Array" -> <<91>> \o Encode(t[2])
EncodeAll(ts) == Flatten([k \in 1..Len(ts) |-> Encode(ts[k])])

\* What may follow a descriptor in the string.
Suffixes == {<<>>, <<73>>, <<59>>, <<91>>, <<41, 86>>, <<76, 65>>}
\* Strings that are no descriptor.
BadFieldStrings == {<<>>, <<86>>, <<76>>, <<76, 65>>, <<91>>, <<91, 91>>, <<41>>, <<88, 73>>}
FieldStrings ==
    {Encode(t) \o s : t \in FieldTypes, s \in Suffixes} \cup BadFieldStrings

\* Method descriptors built from parts: what comes first, the parameters,
\* and what comes after them.
ParameterTypes ==
    {<<"Base", "Int">>, <<"Base", "Long">>, <<"Object", STR_A>>,
     <<"Array", <<"Base", "Int">>>>}
ParameterLists ==
    {<<>>} \cup {<<t>> : t \in ParameterTypes}
           \cup {<<t, u>> : t \in ParameterTypes, u \in ParameterTypes}
MethodHeads == {<<40>>, <<>>, <<73>>, <<41>>, <<86>>, <<91>>}
MethodTails ==
    {<<>>, <<41>>, <<41, 86>>, <<41, 86, 88>>, <<76, 65>>, <<91>>, <<41, 76, 65>>}
        \cup {<<41>> \o Encode(t) : t \in ParameterTypes}
MethodStrings ==
    {h \o EncodeAll(ps) \o t : h \in MethodHeads, ps \in ParameterLists, t \in MethodTails}

InitDescriptors ==
    /\ byte_reader = ByteReader_new(<<>>)
    /\ reader_advances = TRUE
    /\ frame = Frame_new(0, 0)
    /\ overflow_checks = FALSE
    /\ constants = <<>>
    /\ class_file = ClassFile_default
    /\ pc = "descriptors"
    /\ ran = <<>>
    /\ result = None
    /\ out = NoCall
    /\ calls = 0

\* A call of the parser `name` on chars that returned h.
DescriptorCall(name, chars, h) ==
    /\ ran' = <<<<chars, h.rest>>>>
    /\ out' = [NoCall EXCEPT !.op = name, !.ok = h.ok, !.err = h.err, !.val = h.val]
    /\ calls' = calls + 1
    /\ UNCHANGED <<frame, overflow_checks,
                   byte_reader, reader_advances, constants, class_file, pc, result>>

Call_FieldType_try_from ==
    /\ calls = 0
    /\ \E chars \in FieldStrings :
          DescriptorCall("FieldType::try_from", chars, FieldType_try_from(chars))

Call_MethodDescriptor_try_from ==
    /\ calls = 0
    /\ \E chars \in MethodStrings :
          DescriptorCall("MethodDescriptor::try_from", chars,
                         MethodDescriptor_try_from(chars))

NextDescriptors == Call_FieldType_try_from \/ Call_MethodDescriptor_try_from

SpecDescriptors == InitDescriptors /\ [][NextDescriptors]_vars

\* C26: descriptor round trip: for every field type t (base type, class
\* with a name without ';', array of a field type, to a bounded depth),
\* FieldType::try_from on the descriptor of t returns exactly t and
\* consumes exactly the characters of the descriptor: what follows it in
\* the string is left unread.
C26_DescriptorRoundTrip ==
    out.op = "FieldType::try_from" =>
        \A t \in FieldTypes, s \in Suffixes :
            ran[1][1] = Encode(t) \o s =>
                /\ out.ok
                /\ out.val = t
                /\ ran[1][2] = s

\* The descriptor [[Ljava/lang/String; followed by "I" was parsed.
C26_Witness ==
    /\ out.op = "FieldType::try_from" /\ out.ok
    /\ ran[1][1] = <<91, 91, 76>> \o STR_java_lang_String \o <<59, 73>>
    /\ out.val = <<"Array", <<"Array", <<"Object", STR_java_lang_String>>>>>>
    /\ ran[1][2] = <<73>>

\* After a call of MethodDescriptor::try_from: the string it was given.
MethodParsed == out.op = "MethodDescriptor::try_from"
MethodChars == ran[1][1]

\* C29: MethodDescriptor::try_from classifies bracket errors: a descriptor
\* whose first character is not '(' fails with NoOpeningBracket; '('
\* followed by zero or more well-formed field types and then the end of
\* the string fails with NoClosingBracket; '(' parameters ')' followed by
\* 'V' yields the parameters and Void, and followed by a field descriptor
\* yields the parameters and that field type.
C29_BracketErrors ==
    MethodParsed =>
        /\ (Len(MethodChars) > 0 /\ MethodChars[1] # 40) =>
              ~out.ok /\ out.err = <<"NoOpeningBracket">>
        /\ \A ps \in ParameterLists :
              /\ MethodChars = <<40>> \o EncodeAll(ps) =>
                    ~out.ok /\ out.err = <<"NoClosingBracket">>
              /\ MethodChars = <<40>> \o EncodeAll(ps) \o <<41, 86>> =>
                    out.ok /\ out.val = <<ps, <<"VoidDescriptor">>>>
              /\ \A t \in ParameterTypes :
                    MethodChars = <<40>> \o EncodeAll(ps) \o <<41>> \o Encode(t) =>
                        out.ok /\ out.val = <<ps, <<"FieldType", t>>>>

\* "(IJ" was rejected for its missing ')'.
C29_Witness ==
    /\ MethodParsed /\ ~out.ok
    /\ MethodChars = <<40, 73, 74>>
    /\ out.err = <<"NoClosingBracket">>

---------------------------------------------------------------------------
(* Properties of read_instruction on the opcode a code array starts with,  *)
(* stated on the state read_methods leaves behind.                         *)

\* read_methods came to a Code attribute whose code array holds an opcode.
FirstOpcodeRead ==
    /\ CodeHeaderRead
    /\ LastCodeLength >= 1
    /\ Len(byte_reader.buf) > LastCodeStart
FirstOpcode == byte_reader.buf[LastCodeStart + 1]

\* The opcodes JVMS assigns to an instruction.
AssignedOpcodes == 0..201

\* C27: every assigned JVM opcode is decoded into an instruction; goto,
\* jsr, goto_w, jsr_w, newarray, tableswitch, lookupswitch and wide among
\* them do not abort the parse when a Code attribute holds them.
C27_AssignedOpcodesDecoded ==
    (FirstOpcodeRead /\ FirstOpcode \in AssignedOpcodes) => ~IsPanic(out.err)

\* C28: invokeinterface (0xb9) is decoded as one instruction of five
\* bytes, the opcode, a u16 index, a u8 count kept as an operand and the
\* padding byte: the instruction after an invokeinterface at offset 0 has
\* offset 5 and the padding byte is no instruction of its own.
C28_InvokeinterfaceFiveBytes ==
    (/\ FirstOpcodeRead
     /\ FirstOpcode = 185
     /\ LastCodeLength >= 6
     /\ Len(byte_reader.buf) >= LastCodeStart + LastCodeLength) =>
        /\ out.ok
        /\ LastCode.code[1] = <<<<"Invokeinterface", U16At(LastCodeStart + 1),
                                 byte_reader.buf[LastCodeStart + 4]>>, 0>>
        /\ Len(LastCode.code) >= 2
        /\ LastCode.code[2][2] = 5

---------------------------------------------------------------------------
(* The interpreter: Frame and binary_op of frame.rs, and                   *)
(* InstructionExecutor::execute of instruction_executor.rs on the integer  *)
(* constants and the two right shifts.  A Value is <<"Int", n>>,           *)
(* <<"Long", n>> or <<"Null">>; an i32 is the integer it denotes, and      *)
(* every operation below wraps or checks at 32 bits as the build does.     *)

I32Min == -2147483647 - 1
I32Max == 2147483647

Pow2(k) == 2 ^ k        \* for k in 0..30

\* `a >> s` on i32: the arithmetic shift, floor(a / 2^s), for s in 0..31.
ArithmeticShr(a, s) ==
    IF s <= 30 THEN a \div Pow2(s) ELSE (a \div Pow2(30)) \div 2

\* `b & 0x1F` and `!b` on i32.
Low5(b) == b % 32
BitNot(b) == IF b >= 0 THEN (-b) - 1 ELSE -(b + 1)

\* What an arithmetic step of the closure yields: a value or a panic.
Value32(v) == [ok |-> TRUE, val |-> v, err |-> <<>>]
Overflow(msg) == [ok |-> FALSE, val |-> 0, err |-> Panic(msg)]

\* `2 << r` on i32.  With overflow checks a shift amount outside 0..31
\* panics; without them the amount is taken modulo 32.  Bits shifted out
\* of the 32 are dropped in both builds.
TwoShl(r, checks) ==
    IF checks /\ (r < 0 \/ r > 31)
    THEN Overflow("attempt to shift left with overflow")
    ELSE Value32(CASE r % 32 = 31 -> 0
                   [] r % 32 = 30 -> I32Min
                   [] OTHER -> Pow2((r % 32) + 1))

\* `x + y` on i32: a panic on overflow with overflow checks, the wrapped
\* sum without them.
AddI32(x, y, checks) ==
    IF x < 0 /\ y < 0 /\ x < I32Min - y
    THEN IF checks THEN Overflow("attempt to add with overflow")
         ELSE Value32((x - I32Min) + (y - I32Min))
    ELSE IF x > 0 /\ y > 0 /\ x > I32Max - y
    THEN IF checks THEN Overflow("attempt to add with overflow")
         ELSE Value32(((x - I32Max) - 1) + ((y - I32Max) - 1))
    ELSE Value32(x + y)

\* The closure of the Ishr arm.
Ishr_op(a, b, checks) == Value32(ArithmeticShr(a, Low5(b)))

\* The closure of the Iushr arm:
\* if a >= 0 { a >> (b & 0x1F) } else { (a >> (b & 0x1F)) + (2 << !b) }.
Iushr_op(a, b, checks) ==
    IF a >= 0 THEN Value32(ArithmeticShr(a, Low5(b)))
    ELSE IF ~TwoShl(BitNot(b), checks).ok THEN TwoShl(BitNot(b), checks)
    ELSE AddI32(ArithmeticShr(a, Low5(b)), TwoShl(BitNot(b), checks).val, checks)

\* What a call on a frame leaves: the frame, and the panic if it aborted.
Ran(f) == [ok |-> TRUE, err |-> <<>>, frame |-> f]
Aborted(msg, f) == [ok |-> FALSE, err |-> Panic(msg), frame |-> f]

\* Frame::push_operand: OperandStack::push appends, whatever the capacity.
push_operand(f, value) ==
    [f EXCEPT !.stack.elements = Append(f.stack.elements, value)]

\* The frame after OperandStack::pop took the top element.
Popped(f) ==
    [f EXCEPT !.stack.elements = SubSeq(f.stack.elements, 1, Len(f.stack.elements) - 1)]
Top(f) == f.stack.elements[Len(f.stack.elements)]

\* binary_op::<i32, _>(op, frame): pop second, pop first, apply, push.
\* Vec::pop().unwrap() panics on the empty stack, <i32 as Operand>::pop on
\* a value that is no Int; an element already popped stays popped.
binary_op_i32(op(_, _, _), f, checks) ==
    IF Len(f.stack.elements) = 0
    THEN Aborted("called Option::unwrap() on a None value", f)
    ELSE IF Top(f)[1] # "Int" THEN Aborted("Expected i32", Popped(f))
    ELSE IF Len(Popped(f).stack.elements) = 0
    THEN Aborted("called Option::unwrap() on a None value", Popped(f))
    ELSE IF Top(Popped(f))[1] # "Int" THEN Aborted("Expected i32", Popped(Popped(f)))
    ELSE IF ~op(Top(Popped(f))[2], Top(f)[2], checks).ok
    THEN Aborted(op(Top(Popped(f))[2], Top(f)[2], checks).err[2], Popped(Popped(f)))
    ELSE Ran(push_operand(Popped(Popped(f)),
                          <<"Int", op(Top(Popped(f))[2], Top(f)[2], checks).val>>))

\* The instructions execute is called with here.
IntConstants == [Iconst_m1 |-> -1, Iconst_0 |-> 0, Iconst_1 |-> 1, Iconst_2 |-> 2,
                 Iconst_3 |-> 3, Iconst_4 |-> 4, Iconst_5 |-> 5]
Instructions == DOMAIN IntConstants \cup {"Aconst_null", "Lconst_1", "Ishr", "Iushr", "Nop"}

\* InstructionExecutor::execute(instruction, frame).
execute(instruction, f, checks) ==
    IF instruction \in DOMAIN IntConstants
    THEN Ran(push_operand(f, <<"Int", IntConstants[instruction]>>))
    ELSE CASE instruction = "Aconst_null" -> Ran(push_operand(f, <<"Null">>))
           [] instruction = "Lconst_1" -> Ran(push_operand(f, <<"Long", 1>>))
           [] instruction = "Ishr" -> binary_op_i32(Ishr_op, f, checks)
           [] instruction = "Iushr" -> binary_op_i32(Iushr_op, f, checks)
           [] OTHER -> Aborted("not implemented", f)

\* The i32 operands pushed under test: both ends of the range, the values
\* of the tests in the source, and shift counts on both sides of 0, 31 and 32.
MaxSteps == 3       \* calls made on one frame
IntOperands == {I32Min, -1073741824, -16, -1, 0, 1, 2, 5, 16, 30, 31, 32, 33, I32Max,
                -31, -32, -33}
Operands == {<<"Int", n>> : n \in IntOperands} \cup {<<"Long", 1>>, <<"Null">>}

\* setup_frame() of the tests: Frame::new(0, 2), in either build.
InitInterpreter ==
    /\ byte_reader = ByteReader_new(<<>>)
    /\ reader_advances = TRUE
    /\ constants = <<>>
    /\ class_file = ClassFile_default
    /\ pc = "interpreter"
    /\ ran = <<>>
    /\ result = None
    /\ out = NoCall
    /\ calls = 0
    /\ frame = Frame_new(0, 2)
    /\ overflow_checks \in BOOLEAN

\* A call on the frame: out keeps the operand stack the call found.
FrameCall(name, h) ==
    /\ frame' = h.frame
    /\ out' = [NoCall EXCEPT !.op = name, !.val = frame.stack.elements,
                             !.ok = h.ok, !.err = h.err]
    /\ result' = IF h.ok THEN None ELSE <<"Panic", h.err[2]>>
    /\ calls' = calls + 1
    /\ UNCHANGED <<byte_reader, reader_advances, constants, class_file, pc, ran,
                   overflow_checks>>

Call_push_operand ==
    /\ pc = "interpreter" /\ result = None /\ calls < MaxSteps
    /\ \E value \in Operands : FrameCall("push_operand", Ran(push_operand(frame, value)))

Call_execute ==
    /\ pc = "interpreter" /\ result = None /\ calls < MaxSteps
    /\ \E instruction \in Instructions :
          FrameCall(instruction, execute(instruction, frame, overflow_checks))

NextInterpreter == Call_push_operand \/ Call_execute

SpecInterpreter == InitInterpreter /\ [][NextInterpreter]_vars

\* The logical, zero-filling right shift of the i32 a by s in 0..31, as an
\* i32: one logical step makes the value non-negative, the rest is
\* arithmetic.
LogicalShr(a, s) ==
    IF s = 0 THEN a
    ELSE IF a >= 0 THEN ArithmeticShr(a, s)
    ELSE ArithmeticShr(((a - I32Min) \div 2) + Pow2(30), s - 1)

\* The last call executed Iushr on a stack holding two Ints on top.
IushrOnTwoInts ==
    /\ out.op = "Iushr"
    /\ Len(out.val) >= 2
    /\ out.val[Len(out.val)][1] = "Int"
    /\ out.val[Len(out.val) - 1][1] = "Int"

\* C30: executing Iushr on a stack holding a below b pops both and pushes
\* the logical right shift of a by (b & 0x1F) as an i32, for every a,
\* negative ones included, and every b; the stack is one element shorter
\* and the call does not abort.
C30_IushrIsLogicalShift ==
    IushrOnTwoInts =>
        /\ out.ok
        /\ result = None
        /\ frame.stack.elements =
              Append(SubSeq(out.val, 1, Len(out.val) - 2),
                     <<"Int", LogicalShr(out.val[Len(out.val) - 1][2],
                                         Low5(out.val[Len(out.val)][2]))>>)

====
